---- MODULE Spec2Model ----
(***************************************************************************)
(* Two Flags (pawns-only chess): the board model, the legality oracle and  *)
(* the move generators of client.py / random_agent.py / agent.py, and the  *)
(* alpha-beta agent of agent.py (AIAgent.make_move).                       *)
(*                                                                         *)
(* A bitmap (8x8 list of lists of booleans) is the set of its True cells   *)
(* <<row, col>>, row 0 = rank 8, col 0 = file a.  A Python string is the   *)
(* sequence of its characters.                                             *)
(***************************************************************************)
EXTENDS Integers, Sequences, FiniteSets, TLC

VARIABLES
    role,                 \* AIAgent.role / the role argument of the pure functions
    white_bitmap,         \* the live white bitmap
    black_bitmap,         \* the live black bitmap
    transposition_table,  \* AIAgent.transposition_table
    pc,                   \* position of the running specification in the code
    move_count,           \* main(): move_count
    moves,                \* make_move: moves (list generated at the start of the call)
    depth,                \* make_move: loop variable of the iterative deepening
    best_move,            \* make_move: best_move
    best_score,           \* make_move: best_score
    deadline,             \* index of the first time check that observes the overrun
    checks,               \* number of time checks evaluated so far in this call
    ret,                  \* value returned by the last make_move call
    time_left,            \* main(): agent_time_left > 0
    hist,                 \* history of the running make_move call (see HistInit)
    query,                \* pure-function specifications: the inputs drawn
    out,                  \* pure-function specifications: the value computed
    ponder,               \* AIAgent.ponder_stop, AIAgent.ponder_thread and the
                          \* local variables of the thread (see NoThread)
    mcts,                 \* the Monte Carlo tree search session (see NoSession)
    net,                  \* server.py and the two players: positions in the code,
                          \* sockets and buffers (see NoNet)
    gui                   \* PawnChessGUI in human mode (see NoGui)

vars == <<role, white_bitmap, black_bitmap, transposition_table, pc, move_count,
          moves, depth, best_move, best_score, deadline, checks, ret,
          time_left, hist, query, out, ponder, mcts, net, gui>>

----------------------------------------------------------------------------
(* Characters and coordinates                                              *)

Roles == {"White", "Black"}

FileChars == <<"a", "b", "c", "d", "e", "f", "g", "h">>
DigitChars == <<"0", "1", "2", "3", "4", "5", "6", "7", "8", "9">>

\* The characters the model feeds to the parsers: the files, the digits, the
\* neighbours of a and h in code-point order (chr(96), written "backtick", and
\* "i"), an upper-case file and a letter that is neither a file nor a digit.
Chars == {FileChars[i] : i \in 1..8} \cup {DigitChars[i] : i \in 1..10}
            \cup {"backtick", "i", "A", "x"}

\* ord(ch) for the characters of Chars.
ord(ch) ==
    CASE ch = "backtick" -> 96
      [] ch = "A" -> 65
      [] ch = "x" -> 120
      [] ch = "i" -> 105
      [] \E i \in 1..8 : FileChars[i] = ch ->
            96 + (CHOOSE i \in 1..8 : FileChars[i] = ch)
      [] OTHER -> 47 + (CHOOSE i \in 1..10 : DigitChars[i] = ch)

\* str.lower() on one character.
lower(ch) == IF ch = "A" THEN "a" ELSE ch

\* int(ch) succeeds exactly on a digit; otherwise it raises ValueError.
IsDigit(ch) == \E i \in 1..10 : DigitChars[i] = ch
int(ch) == (CHOOSE i \in 1..10 : DigitChars[i] = ch) - 1

\* convert_coord raises (ValueError from int) on a non-digit second character.
convert_coord_raises(coord) == ~IsDigit(coord[2])

\* A variant of convert_coord that counts the rows from rank 1 instead of
\* from rank 8.
convert_coord_from_rank1(coord) ==
    <<int(coord[2]) - 1, ord(lower(coord[1])) - ord("a")>>

\* convert_coord(coord) = (row, col): no range check of either component.
convert_coord(coord) ==
    <<8 - int(coord[2]), ord(lower(coord[1])) - ord("a")>>

\* coord_to_algebraic(row, col) = chr(ord(a) + col) + str(8 - row), for the
\* cells of the board (the only arguments the code passes).
coord_to_algebraic(row, col) == <<FileChars[col + 1], DigitChars[(8 - row) + 1]>>

Rows == 0..7
Cols == 0..7
Cells == Rows \X Cols

\* Python list indexing bitmap[r][c]: an index in -8..-1 counts from the end,
\* an index outside -8..7 raises IndexError.
IndexOK(i) == i >= -8 /\ i <= 7
Wrap(i) == IF i < 0 THEN i + 8 ELSE i
ReadRaises(r, c) == ~(IndexOK(r) /\ IndexOK(c))
Read(bitmap, r, c) == <<Wrap(r), Wrap(c)>> \in bitmap

\* initialize_boards: a token is <<colour char, file char, rank char>>; tokens
\* shorter than 3 characters are skipped; the colour is upper-cased.
upper(ch) == IF ch = "w" THEN "W" ELSE IF ch = "b" THEN "B" ELSE ch

RECURSIVE initialize_boards(_)
initialize_boards(tokens) ==
    IF tokens = <<>> THEN <<{}, {}>>
    ELSE LET rest == initialize_boards(Tail(tokens))
             token == Head(tokens)
         IN  IF Len(token) < 3 THEN rest
             ELSE LET color == upper(token[1])
                      rc == convert_coord(SubSeq(token, 2, Len(token)))
                      cell == <<Wrap(rc[1]), Wrap(rc[2])>>
                  IN  IF color = "W" THEN <<rest[1] \cup {cell}, rest[2]>>
                      ELSE IF color = "B" THEN <<rest[1], rest[2] \cup {cell}>>
                      ELSE rest

\* initialize_boards raises: ValueError from convert_coord on a token of at
\* least 3 characters, or IndexError from the assignment to the bitmap of a W
\* or B token.
initialize_boards_raises(tokens) ==
    \E i \in 1..Len(tokens) :
       /\ Len(tokens[i]) >= 3
       /\ \/ convert_coord_raises(SubSeq(tokens[i], 2, Len(tokens[i])))
          \/ /\ upper(tokens[i][1]) \in {"W", "B"}
             /\ ReadRaises(convert_coord(SubSeq(tokens[i], 2, Len(tokens[i])))[1],
                           convert_coord(SubSeq(tokens[i], 2, Len(tokens[i])))[2])

\* A variant of execute_move that leaves the opponent's bitmap alone.
execute_move_no_capture(move, own, opp) ==
    LET from == convert_coord(SubSeq(move, 1, 2))
        to == convert_coord(SubSeq(move, 3, Len(move)))
        src == <<Wrap(from[1]), Wrap(from[2])>>
        dst == <<Wrap(to[1]), Wrap(to[2])>>
    IN  <<(own \ {src}) \cup {dst}, opp>>

\* execute_move(move, own, opp): <<own', opp'>>.
execute_move(move, own, opp) ==
    LET from == convert_coord(SubSeq(move, 1, 2))
        to == convert_coord(SubSeq(move, 3, Len(move)))
        src == <<Wrap(from[1]), Wrap(from[2])>>
        dst == <<Wrap(to[1]), Wrap(to[2])>>
    IN  <<(own \ {src}) \cup {dst}, opp \ {dst}>>

----------------------------------------------------------------------------
(* The legality oracle of client.py and random_agent.py                    *)

\* The three outcomes of a call: the two return values and an IndexError that
\* leaves the function (the try block covers convert_coord only).
Outcomes == {"True", "False", "IndexError"}

Bool(b) == IF b THEN "True" ELSE "False"

\* A variant of is_move_legal_from whose two-square case does not look at the
\* intermediate square.
is_move_legal_from_jump(fr, fc, tr, tc, dir, home, own, opp) ==
    LET row_diff == tr - fr
        col_diff == tc - fc
    IN  IF (dir = -1 /\ row_diff >= 0) \/ (dir = 1 /\ row_diff <= 0) THEN "False"
        ELSE IF col_diff = 0 THEN
            IF row_diff = dir \/ (row_diff = 2 * dir /\ fr = home) THEN
                IF ReadRaises(tr, tc) THEN "IndexError"
                ELSE Bool(~(Read(own, tr, tc) \/ Read(opp, tr, tc)))
            ELSE "False"
        ELSE IF (col_diff = 1 \/ col_diff = -1) /\ row_diff = dir THEN
            IF ReadRaises(tr, tc) THEN "IndexError"
            ELSE Bool(Read(opp, tr, tc))
        ELSE "False"

\* The straight and diagonal cases, shared by both roles: dir is -1 for White
\* and +1 for Black, home is the row a two-square move may start from.
is_move_legal_from(fr, fc, tr, tc, dir, home, own, opp) ==
    LET row_diff == tr - fr
        col_diff == tc - fc
    IN  IF (dir = -1 /\ row_diff >= 0) \/ (dir = 1 /\ row_diff <= 0) THEN "False"
        ELSE IF col_diff = 0 THEN
            IF row_diff = dir THEN
                IF ReadRaises(tr, tc) THEN "IndexError"
                ELSE Bool(~(Read(own, tr, tc) \/ Read(opp, tr, tc)))
            ELSE IF row_diff = 2 * dir THEN
                IF fr # home THEN "False"
                ELSE IF ReadRaises(fr + dir, fc) THEN "IndexError"
                ELSE IF Read(own, fr + dir, fc) \/ Read(opp, fr + dir, fc) THEN "False"
                ELSE IF ReadRaises(tr, tc) THEN "IndexError"
                ELSE Bool(~(Read(own, tr, tc) \/ Read(opp, tr, tc)))
            ELSE "False"
        ELSE IF (col_diff = 1 \/ col_diff = -1) /\ row_diff = dir THEN
            IF ReadRaises(tr, tc) THEN "IndexError"
            ELSE Bool(Read(opp, tr, tc))
        ELSE "False"

is_move_legal(move, r, own, opp) ==
    IF Len(move) # 4 THEN "False"
    ELSE IF convert_coord_raises(SubSeq(move, 1, 2))
            \/ convert_coord_raises(SubSeq(move, 3, 4)) THEN "False"
    ELSE LET f == convert_coord(SubSeq(move, 1, 2))
             t == convert_coord(SubSeq(move, 3, 4))
         IN  IF ReadRaises(f[1], f[2]) THEN "IndexError"
             ELSE IF ~Read(own, f[1], f[2]) THEN "False"
             ELSE IF r = "White"
                  THEN is_move_legal_from(f[1], f[2], t[1], t[2], -1, 6, own, opp)
             ELSE IF r = "Black"
                  THEN is_move_legal_from(f[1], f[2], t[1], t[2], 1, 1, own, opp)
             ELSE "False"

----------------------------------------------------------------------------
(* Move generators                                                         *)

\* The own cells in the order of the two nested loops (row, then column).
RECURSIVE RowMajor(_)
RowMajor(cells) ==
    IF cells = {} THEN <<>>
    ELSE LET first == CHOOSE x \in cells :
                          \A y \in cells : x[1] * 8 + x[2] <= y[1] * 8 + y[2]
         IN  <<first>> \o RowMajor(cells \ {first})

Occupied(own, opp, r, c) == <<r, c>> \in own \/ <<r, c>> \in opp

\* A variant of agent_pawn_moves that appends a diagonal move whenever the
\* diagonal square is not held by an own pawn.
agent_pawn_moves_any(own, opp, r, c, dir, home) ==
    LET src == coord_to_algebraic(r, c)
        tr == r + dir
        on == tr >= 0 /\ tr < 8
        one == IF on /\ ~Occupied(own, opp, tr, c)
               THEN <<src \o coord_to_algebraic(tr, c)>> ELSE <<>>
        two == IF r = home /\ r + 2 * dir >= 0 /\ r + 2 * dir < 8
                  /\ ~Occupied(own, opp, r + dir, c)
                  /\ ~Occupied(own, opp, r + 2 * dir, c)
               THEN <<src \o coord_to_algebraic(r + 2 * dir, c)>> ELSE <<>>
        cap(dc) == IF on /\ 0 <= c + dc /\ c + dc < 8 /\ <<tr, c + dc>> \notin own
                   THEN <<src \o coord_to_algebraic(tr, c + dc)>> ELSE <<>>
    IN  one \o two \o cap(-1) \o cap(1)

\* A variant of the per-pawn step that lists the captures before the forward
\* moves.
agent_pawn_moves_captures_first(own, opp, r, c, dir, home) ==
    LET src == coord_to_algebraic(r, c)
        tr == r + dir
        on == tr >= 0 /\ tr < 8
        one == IF on /\ ~Occupied(own, opp, tr, c)
               THEN <<src \o coord_to_algebraic(tr, c)>> ELSE <<>>
        two == IF r = home /\ r + 2 * dir >= 0 /\ r + 2 * dir < 8
                  /\ ~Occupied(own, opp, r + dir, c)
                  /\ ~Occupied(own, opp, r + 2 * dir, c)
               THEN <<src \o coord_to_algebraic(r + 2 * dir, c)>> ELSE <<>>
        cap(dc) == IF on /\ 0 <= c + dc /\ c + dc < 8 /\ <<tr, c + dc>> \in opp
                   THEN <<src \o coord_to_algebraic(tr, c + dc)>> ELSE <<>>
    IN  cap(-1) \o cap(1) \o one \o two

\* agent.py: the moves appended for the pawn on (r, c), inline conditions.
\* dir is -1 for role "White" and +1 for role "Black", home the start row.
agent_pawn_moves(own, opp, r, c, dir, home) ==
    LET src == coord_to_algebraic(r, c)
        tr == r + dir
        on == tr >= 0 /\ tr < 8
        one == IF on /\ ~Occupied(own, opp, tr, c)
               THEN <<src \o coord_to_algebraic(tr, c)>> ELSE <<>>
        two == IF r = home /\ r + 2 * dir >= 0 /\ r + 2 * dir < 8
                  /\ ~Occupied(own, opp, r + dir, c)
                  /\ ~Occupied(own, opp, r + 2 * dir, c)
               THEN <<src \o coord_to_algebraic(r + 2 * dir, c)>> ELSE <<>>
        cap(dc) == IF on /\ 0 <= c + dc /\ c + dc < 8 /\ <<tr, c + dc>> \in opp
                   THEN <<src \o coord_to_algebraic(tr, c + dc)>> ELSE <<>>
    IN  one \o two \o cap(-1) \o cap(1)

\* client.py / random_agent.py: the candidates of the pawn on (r, c), each
\* kept when is_move_legal accepts the candidate string.
client_pawn_moves(r0, own, opp, r, c, dir, home) ==
    LET src == coord_to_algebraic(r, c)
        nr == r + dir
        on == nr >= 0 /\ nr < 8
        keep(cand) == IF is_move_legal(cand, r0, own, opp) = "True"
                      THEN <<cand>> ELSE <<>>
        one == IF on THEN keep(src \o coord_to_algebraic(nr, c)) ELSE <<>>
        two == IF r = home /\ r + 2 * dir >= 0 /\ r + 2 * dir < 8
               THEN keep(src \o coord_to_algebraic(r + 2 * dir, c)) ELSE <<>>
        cap(dc) == IF 0 <= c + dc /\ c + dc < 8 /\ on
                   THEN keep(src \o coord_to_algebraic(nr, c + dc)) ELSE <<>>
    IN  one \o two \o cap(-1) \o cap(1)

RECURSIVE Concat(_)
Concat(seqs) == IF seqs = <<>> THEN <<>> ELSE Head(seqs) \o Concat(Tail(seqs))

\* A variant of Home with the start row of White for both roles.
Home_white(r) == 6

\* A variant of Dir in which both roles move towards row 0.
Dir_up(r) == -1

Dir(r) == IF r = "White" THEN -1 ELSE 1
Home(r) == IF r = "White" THEN 6 ELSE 1

\* agent.py generate_all_legal_moves(role, own_bitmap, opp_bitmap).
generate_all_legal_moves(r, own, opp) ==
    IF r \notin Roles THEN <<>>
    ELSE LET cells == RowMajor(own)
         IN  Concat([k \in 1..Len(cells) |->
                agent_pawn_moves(own, opp, cells[k][1], cells[k][2], Dir(r), Home(r))])

\* client.py generate_all_legal_moves(role, own_bitmap, opp_bitmap).
client_generate_all_legal_moves(r, own, opp) ==
    IF r \notin Roles THEN <<>>
    ELSE LET cells == RowMajor(own)
         IN  Concat([k \in 1..Len(cells) |->
                client_pawn_moves(r, own, opp, cells[k][1], cells[k][2], Dir(r), Home(r))])

\* agent.py check_win_conditions: promotion only; None is "None".
check_win_conditions(white, black) ==
    LET hit == {c \in Cols : <<0, c>> \in white \/ <<7, c>> \in black}
    IN  IF hit = {} THEN "None"
        ELSE LET c == CHOOSE x \in hit : \A y \in hit : x <= y
             IN  IF <<0, c>> \in white THEN "White wins" ELSE "Black wins"

\* client.py / random_agent.py check_win_conditions: promotion (White
\* first), then a side without pawns, then a side without legal moves.
client_check_win_conditions(white, black) ==
    IF \E c \in Cols : <<0, c>> \in white THEN "White wins"
    ELSE IF \E c \in Cols : <<7, c>> \in black THEN "Black wins"
    ELSE IF Cardinality(black) = 0 THEN "White wins"
    ELSE IF Cardinality(white) = 0 THEN "Black wins"
    ELSE IF client_generate_all_legal_moves("White", white, black) = <<>> THEN "Black wins"
    ELSE IF client_generate_all_legal_moves("Black", black, white) = <<>> THEN "White wins"
    ELSE "None"

----------------------------------------------------------------------------
(* The search of AIAgent                                                   *)

\* float('inf'): larger than every score the evaluation can produce.
PosInf == 1000000
NegInf == -PosInf

Opponent(r) == IF r = "White" THEN "Black" ELSE "White"

Max(a, b) == IF a >= b THEN a ELSE b
Min(a, b) == IF a <= b THEN a ELSE b

\* Time is read only by the checks "time.time() - self.start_time >
\* self.time_limit"; the clock is monotonic, so one call is determined by the
\* index dl of the first check that observes the overrun (Never: none does).
\* n is the number of checks evaluated so far.
Never == -1
TimeUp(n, dl) == dl # Never /\ n >= dl

RECURSIVE SumOver(_, _)
SumOver(cells, dflt) ==
    IF cells = {} THEN 0
    ELSE LET x == CHOOSE y \in cells : TRUE
         IN  (IF dflt = "white" THEN 10 + (7 - x[1]) ELSE 10 + x[1])
             + SumOver(cells \ {x}, dflt)

\* AIAgent._evaluate_position: white_score - black_score.
evaluate_position(white, black) == SumOver(white, "white") - SumOver(black, "black")

\* AIAgent._evaluate_terminal.
evaluate_terminal(r) == IF r = "White" THEN -9999 ELSE 9999

\* AIAgent._hash_position: the role followed by the two bits of each of the 64
\* cells in row-major order.
hash_position(white, black, r) ==
    <<r>> \o [k \in 1..128 |->
        LET cell == <<((k - 1) \div 2) \div 8, ((k - 1) \div 2) % 8>>
        IN  IF k % 2 = 1 THEN (IF cell \in white THEN "1" ELSE "0")
            ELSE (IF cell \in black THEN "1" ELSE "0")]

\* transposition_table[key] = (depth, best_score, None).
Store(tt, key, d, score) == (key :> [depth |-> d, score |-> score]) @@ tt

RECURSIVE alpha_beta(_, _, _, _, _, _, _, _, _)
RECURSIVE alpha_beta_loop(_, _, _, _, _, _, _, _, _, _, _, _)

\* The body of the for loop of _alpha_beta after the recursive call on the
\* child of mvs[i] has returned res: best_score and the window are updated,
\* the loop breaks on beta <= alpha or goes on with mvs[i + 1].
alpha_beta_after(res, white, black, d, alpha, beta, r, mvs, i, best, dl) ==
    LET best1 == IF r = "White" THEN Max(best, res.score) ELSE Min(best, res.score)
        alpha1 == IF r = "White" THEN Max(alpha, best1) ELSE alpha
        beta1 == IF r = "White" THEN beta ELSE Min(beta, best1)
    IN  IF beta1 <= alpha1 THEN [score |-> best1, tt |-> res.tt, n |-> res.n]
        ELSE alpha_beta_loop(white, black, d, alpha1, beta1, r, mvs, i + 1,
                             best1, res.tt, res.n, dl)

\* The copies of the bitmaps with mvs[i] executed: execute_move(move, w_copy,
\* b_copy) for role "White", execute_move(move, b_copy, w_copy) otherwise.
Child(m, white, black, r) ==
    IF r = "White" THEN execute_move(m, white, black)
    ELSE LET nb == execute_move(m, black, white) IN <<nb[2], nb[1]>>

\* The for loop of _alpha_beta over mvs[i..]: [score, tt, n].
alpha_beta_loop(white, black, d, alpha, beta, r, mvs, i, best, tt, n, dl) ==
    IF i > Len(mvs) THEN [score |-> best, tt |-> tt, n |-> n]
    ELSE IF TimeUp(n, dl) THEN [score |-> best, tt |-> tt, n |-> n + 1]
    ELSE alpha_beta_after(
            alpha_beta(Child(mvs[i], white, black, r)[1], Child(mvs[i], white, black, r)[2],
                       d - 1, alpha, beta, Opponent(r), tt, n + 1, dl),
            white, black, d, alpha, beta, r, mvs, i, best, dl)

\* self.transposition_table[state_key] = (depth, best_score, None); return.
alpha_beta_store(res, state_key, d) ==
    [score |-> res.score, tt |-> Store(res.tt, state_key, d, res.score), n |-> res.n]

\* _alpha_beta below the table lookup, on the moves mvs generated for the node.
alpha_beta_expand(mvs, white, black, d, alpha, beta, r, tt, n, dl) ==
    IF mvs = <<>>
    THEN [score |-> IF r = "White" THEN -9999 ELSE 9999, tt |-> tt, n |-> n]
    ELSE alpha_beta_store(
            alpha_beta_loop(white, black, d, alpha, beta, r, mvs, 1,
                            IF r = "White" THEN NegInf ELSE PosInf, tt, n, dl),
            hash_position(white, black, r), d)

\* The table lookup of _alpha_beta.
Hit(tt, state_key, d) == state_key \in DOMAIN tt /\ tt[state_key].depth >= d

\* AIAgent._alpha_beta(white_bitmap, black_bitmap, depth, alpha, beta, role)
\* with the table tt and the clock (n, dl): [score, tt, n].  The moves of both
\* roles are generated by generate_all_legal_moves(role, white_bitmap,
\* black_bitmap), the white bitmap in the own position, as the code does.
alpha_beta(white, black, d, alpha, beta, r, tt, n, dl) ==
    IF TimeUp(n, dl)
    THEN [score |-> evaluate_position(white, black), tt |-> tt, n |-> n + 1]
    ELSE IF check_win_conditions(white, black) # "None" \/ d = 0
    THEN [score |-> evaluate_position(white, black), tt |-> tt, n |-> n + 1]
    ELSE IF Hit(tt, hash_position(white, black, r), d)
    THEN [score |-> tt[hash_position(white, black, r)].score, tt |-> tt, n |-> n + 1]
    ELSE alpha_beta_expand(generate_all_legal_moves(r, white, black),
                           white, black, d, alpha, beta, r, tt, n + 1, dl)

\* AIAgent._generate_legal_moves_for_role.
generate_legal_moves_for_role(r, white, black) ==
    IF r = "White" THEN generate_all_legal_moves("White", white, black)
    ELSE generate_all_legal_moves("Black", black, white)

\* None, and the string "exit".
None == <<>>
Exit == <<"e", "x", "i", "t">>

RECURSIVE iterative_search_loop(_, _, _, _, _, _, _, _, _, _, _, _, _)

\* The body of the for loop of _iterative_search after _alpha_beta on the child
\* of mvs[i] has returned res.
iterative_search_after(res, r, white, black, d, mvs, i, bm, bs, alpha, beta, dl) ==
    LET better == IF r = "White" THEN res.score > bs ELSE res.score < bs
        bs1 == IF better THEN res.score ELSE bs
        bm1 == IF better THEN mvs[i] ELSE bm
        alpha1 == IF r = "White" THEN Max(alpha, bs1) ELSE alpha
        beta1 == IF r = "White" THEN beta ELSE Min(beta, bs1)
    IN  IF beta1 <= alpha1
        THEN [move |-> bm1, score |-> bs1, tt |-> res.tt, n |-> res.n]
        ELSE iterative_search_loop(r, white, black, d, mvs, i + 1, bm1, bs1,
                                   alpha1, beta1, res.tt, res.n, dl)

\* The for loop of _iterative_search over mvs[i..]: [move, score, tt, n].
iterative_search_loop(r, white, black, d, mvs, i, bm, bs, alpha, beta, tt, n, dl) ==
    IF i > Len(mvs) THEN [move |-> bm, score |-> bs, tt |-> tt, n |-> n]
    ELSE IF TimeUp(n, dl) THEN [move |-> bm, score |-> bs, tt |-> tt, n |-> n + 1]
    ELSE iterative_search_after(
            alpha_beta(Child(mvs[i], white, black, r)[1], Child(mvs[i], white, black, r)[2],
                       d - 1, alpha, beta, Opponent(r), tt, n + 1, dl),
            r, white, black, d, mvs, i, bm, bs, alpha, beta, dl)

\* _iterative_search on the moves mvs of the live position.
iterative_search_on(mvs, r, white, black, d, tt, n, dl) ==
    IF mvs = <<>>
    THEN [move |-> Exit, score |-> evaluate_terminal(r), tt |-> tt, n |-> n]
    ELSE iterative_search_loop(r, white, black, d, mvs, 1, None,
                               IF r = "White" THEN NegInf ELSE PosInf,
                               NegInf, PosInf, tt, n, dl)

\* AIAgent._iterative_search(depth) on the live position: [move, score, tt, n].
iterative_search(r, white, black, d, tt, n, dl) ==
    iterative_search_on(generate_legal_moves_for_role(r, white, black),
                        r, white, black, d, tt, n, dl)

\* A variant of find_immediate_promotion that returns the last promoting
\* move instead of the first.
find_immediate_promotion_last(r, mvs) ==
    LET hits == {i \in 1..Len(mvs) :
                    LET dst_row == convert_coord(SubSeq(mvs[i], 3, Len(mvs[i])))[1]
                    IN  (r = "White" /\ dst_row = 0) \/ (r = "Black" /\ dst_row = 7)}
    IN  IF hits = {} THEN None
        ELSE mvs[CHOOSE i \in hits : \A j \in hits : i >= j]

\* AIAgent._find_immediate_promotion(moves): the first move whose destination
\* row is the final row of the role, else None.
find_immediate_promotion(r, mvs) ==
    LET hits == {i \in 1..Len(mvs) :
                    LET dst_row == convert_coord(SubSeq(mvs[i], 3, Len(mvs[i])))[1]
                    IN  (r = "White" /\ dst_row = 0) \/ (r = "Black" /\ dst_row = 7)}
    IN  IF hits = {} THEN None
        ELSE mvs[CHOOSE i \in hits : \A j \in hits : i <= j]

----------------------------------------------------------------------------
(* The agent's game loop: main() and AIAgent.make_move                     *)

\* Bounds of the model.
MaxDepth == 4       \* cap on the depths the iterative deepening runs
MaxChecks == 12     \* largest index, within one iteration, of the first
                    \* time check that observes the overrun

\* Setup messages after split(), without the leading "Setup".
Setups ==
    { << <<"W", "a", "2">>, <<"B", "b", "3">> >>,
      << <<"W", "a", "3">>, <<"B", "a", "4">>, <<"B", "c", "7">> >>,
      << <<"W", "b", "7">>, <<"W", "h", "2">>, <<"B", "c", "8">>, <<"B", "g", "4">> >>,
      << <<"W", "c", "3">>, <<"W", "d", "2">>, <<"B", "d", "7">>, <<"B", "c", "6">>, <<"W", "x">> >>,
      << <<"w", "f", "6">>, <<"B", "e", "3">>, <<"b", "g", "2">> >> }

\* f"win: {opponent}"
Verdict(r) == <<"win: ", r>>

\* make_move: max_depth, from the number of moves already played.
max_depth(mc) == IF mc < 10 THEN 5 ELSE 11

is_my_turn == (role = "White" /\ move_count % 2 = 0)
                \/ (role = "Black" /\ move_count % 2 = 1)

\* The history of the running make_move call.
HistInit(white, black, tt) ==
    [white0 |-> white, black0 |-> black, tt0 |-> tt,
     started |-> TRUE,      \* self.start_time = time.time() was executed
     searches |-> 0,        \* calls of _iterative_search
     completed |-> None,    \* result move of the last iteration no check of
                            \* which observed the overrun
     overrun |-> FALSE,     \* some check of the call observed the overrun
     interrupted |-> FALSE, \* a check inside an iteration observed it
     cut |-> FALSE]         \* an interrupted iteration returned a move

Idle == [white0 |-> {}, black0 |-> {}, tt0 |-> <<>>, started |-> FALSE, searches |-> 0,
         completed |-> None, overrun |-> FALSE, interrupted |-> FALSE, cut |-> FALSE]

PureVars == <<query, out>>

\* No server and no players are running.
NoNet == [server |-> [at |-> "none"]]

\* No GUI is running.
NoGui == [mode |-> "none"]

\* The Monte Carlo tree search session: no session is running.
NoSession == [nodes |-> <<>>, iterations |-> 0, picked |-> 0, result |-> <<>>]

\* The ponder thread: ponder_stop (stop), ponder_thread.is_alive() (alive), the
\* position of the thread in ponder_loop / _iterative_search_ponder (at), its
\* local variables, whether one of its time checks has observed that the
\* deadline of the last make_move has passed (overrun), and its last step
\* (last).  NoThread: start_pondering has not been called.
NoThread ==
    [stop |-> FALSE, alive |-> FALSE, at |-> "none", current_depth |-> 0,
     moves |-> <<>>, index |-> 0, best_move |-> <<>>, best_score |-> 0,
     alpha |-> 0, beta |-> 0, overrun |-> FALSE, last |-> "none"]
SearchVars == <<moves, depth, best_move, best_score, deadline, checks>>

Init ==
    /\ \E setup \in Setups :
          LET boards == initialize_boards(setup)
          IN  white_bitmap = boards[1] /\ black_bitmap = boards[2]
    /\ role \in Roles
    /\ transposition_table = <<>>
    /\ pc = "turn"
    /\ move_count = 0
    /\ moves = <<>> /\ depth = 0 /\ best_move = None /\ best_score = 0
    /\ deadline = Never /\ checks = 0
    /\ ret = None
    /\ time_left = TRUE
    /\ hist = Idle
    /\ query = <<>> /\ out = <<>>
    /\ ponder = NoThread /\ mcts = NoSession /\ net = NoNet /\ gui = NoGui

\* main(): the agent's turn with no time left ends the loop.
OutOfTime ==
    /\ pc = "turn" /\ is_my_turn /\ ~time_left
    /\ pc' = "closed"
    /\ UNCHANGED <<role, white_bitmap, black_bitmap, transposition_table, move_count,
                   ret, time_left, hist, SearchVars, PureVars, ponder, mcts, net, gui>>

\* execute_move on the live bitmaps for the agent's role.
ExecuteLive(m) ==
    LET nb == IF role = "White" THEN execute_move(m, white_bitmap, black_bitmap)
              ELSE execute_move(m, black_bitmap, white_bitmap)
    IN  IF role = "White" THEN white_bitmap' = nb[1] /\ black_bitmap' = nb[2]
        ELSE black_bitmap' = nb[1] /\ white_bitmap' = nb[2]

\* A variant of ReturnVerdict that names the agent's own role as the winner.
ReturnVerdict_own ==
    /\ ret' = Verdict(role)
    /\ pc' = "returned"
    /\ UNCHANGED <<white_bitmap, black_bitmap, transposition_table,
                   depth, best_move, best_score>>

\* make_move, "if not moves": the other side is declared the winner.
ReturnVerdict ==
    /\ ret' = Verdict(Opponent(role))
    /\ pc' = "returned"
    /\ UNCHANGED <<white_bitmap, black_bitmap, transposition_table,
                   depth, best_move, best_score>>

\* make_move, "if winning_move": the promotion is executed and returned.
PlayPromotion(winning_move) ==
    /\ ExecuteLive(winning_move)
    /\ ret' = winning_move
    /\ pc' = "returned"
    /\ UNCHANGED <<transposition_table, depth, best_move, best_score>>

\* A variant of StartSearch whose fallback move is "exit" instead of the first
\* legal move.
StartSearch_exit(mvs) ==
    /\ best_move' = Exit
    /\ best_score' = IF role = "White" THEN NegInf ELSE PosInf
    /\ depth' = 1
    /\ pc' = "deepen"
    /\ UNCHANGED <<white_bitmap, black_bitmap, transposition_table, ret>>

\* make_move: the initialisation of the iterative deepening.
StartSearch(mvs) ==
    /\ best_move' = mvs[1]
    /\ best_score' = IF role = "White" THEN NegInf ELSE PosInf
    /\ depth' = 1
    /\ pc' = "deepen"
    /\ UNCHANGED <<white_bitmap, black_bitmap, transposition_table, ret>>

\* make_move up to the iterative deepening, on the moves mvs of the live
\* position: no legal move, the immediate promotion, or the search.
MakeMoveOn(mvs) ==
    /\ moves' = mvs
    /\ hist' = HistInit(white_bitmap, black_bitmap, transposition_table)
    /\ checks' = 0 /\ deadline' = Never
    /\ IF mvs = <<>> THEN ReturnVerdict
       ELSE IF find_immediate_promotion(role, mvs) # None
       THEN PlayPromotion(find_immediate_promotion(role, mvs))
       ELSE StartSearch(mvs)

MakeMoveBegin ==
    /\ pc = "turn" /\ is_my_turn /\ time_left
    /\ MakeMoveOn(generate_legal_moves_for_role(role, white_bitmap, black_bitmap))
    /\ UNCHANGED <<role, move_count, time_left, PureVars, ponder, mcts, net, gui>>

\* The for loop of make_move after _iterative_search(depth) has returned res
\* under the clock dl: the update of best_move and the time check.
DeepenWith(res, dl) ==
    LET hit == TimeUp(res.n - 1, dl)     \* observed inside the iteration
        after == TimeUp(res.n, dl)       \* observed by the check of make_move
    IN  /\ transposition_table' = res.tt
        /\ deadline' = dl
        /\ checks' = res.n + 1
        /\ IF res.move # None
           THEN best_move' = res.move /\ best_score' = res.score
           ELSE UNCHANGED <<best_move, best_score>>
        /\ hist' = [hist EXCEPT !.searches = @ + 1,
                                !.completed = IF hit \/ res.move = None THEN @
                                              ELSE res.move,
                                !.overrun = after,
                                !.interrupted = IF hit THEN TRUE ELSE @,
                                !.cut = IF hit /\ res.move # None THEN TRUE ELSE @]
        /\ IF after \/ depth >= Min(max_depth(move_count), MaxDepth)
           THEN pc' = "commit" /\ depth' = depth
           ELSE pc' = "deepen" /\ depth' = depth + 1

\* A variant of Deepen in which the first root move is simulated on the live
\* bitmaps instead of on copies.
Deepen_inplace(k) ==
    /\ pc = "deepen"
    /\ DeepenWith(iterative_search(role, white_bitmap, black_bitmap, depth,
                                   transposition_table, 0,
                                   IF hist.overrun THEN 0 ELSE k),
                  IF hist.overrun THEN 0 ELSE k)
    /\ ExecuteLive(moves[1])
    /\ UNCHANGED <<role, move_count, moves, ret, time_left, PureVars, ponder, mcts, net, gui>>

\* One iteration of the for loop of make_move: _iterative_search(depth), the
\* update of best_move, the time check after the iteration.  k is the index,
\* among the time checks of this iteration, of the first one that observes the
\* overrun; once observed, every later check observes it.
Deepen(k) ==
    /\ pc = "deepen"
    /\ DeepenWith(iterative_search(role, white_bitmap, black_bitmap, depth,
                                   transposition_table, 0,
                                   IF hist.overrun THEN 0 ELSE k),
                  IF hist.overrun THEN 0 ELSE k)
    /\ UNCHANGED <<role, white_bitmap, black_bitmap, move_count, moves, ret,
                   time_left, PureVars, ponder, mcts, net, gui>>

\* make_move after the loop: the best move is executed on the live bitmaps and
\* returned.
Commit ==
    /\ pc = "commit"
    /\ IF best_move # Exit THEN ExecuteLive(best_move)
       ELSE UNCHANGED <<white_bitmap, black_bitmap>>
    /\ ret' = best_move
    /\ pc' = "returned"
    /\ UNCHANGED <<role, transposition_table, move_count, time_left, hist,
                   SearchVars, PureVars, ponder, mcts, net, gui>>

\* main() after make_move has returned: the time used is subtracted, the move
\* is sent, "exit" ends the loop, move_count is incremented.  A call in which
\* the overrun was observed has used more than the time that was left.
AfterMove(left) ==
    /\ pc = "returned"
    /\ time_left' = IF hist.overrun THEN FALSE ELSE left
    /\ IF ret = Exit THEN pc' = "closed" /\ UNCHANGED move_count
       ELSE pc' = "turn" /\ move_count' = move_count + 1
    /\ UNCHANGED <<role, white_bitmap, black_bitmap, transposition_table, ret, hist,
                   SearchVars, PureVars, ponder, mcts, net, gui>>

\* main(), the opponent's turn after stop_pondering: the line read is a move
\* of the opponent, which is executed on the live bitmaps; a winner ends the
\* loop.
ApplyOpponentMove ==
    /\ LET opp == Opponent(role)
           mvs == IF opp = "White"
                  THEN client_generate_all_legal_moves("White", white_bitmap, black_bitmap)
                  ELSE client_generate_all_legal_moves("Black", black_bitmap, white_bitmap)
       IN  \E i \in 1..Len(mvs) :
              LET nb == IF opp = "White"
                        THEN execute_move(mvs[i], white_bitmap, black_bitmap)
                        ELSE execute_move(mvs[i], black_bitmap, white_bitmap)
                  w == IF opp = "White" THEN nb[1] ELSE nb[2]
                  b == IF opp = "White" THEN nb[2] ELSE nb[1]
              IN  /\ white_bitmap' = w /\ black_bitmap' = b
                  /\ IF check_win_conditions(w, b) # "None"
                     THEN pc' = "closed" /\ UNCHANGED move_count
                     ELSE pc' = "turn" /\ move_count' = move_count + 1
    /\ UNCHANGED <<role, transposition_table, ret, time_left, hist, SearchVars, PureVars, ponder, mcts, net, gui>>

\* main(), the opponent's turn in one step.  The ponder thread started before
\* the read is joined after it (stop_pondering); what it writes into the
\* transposition table meanwhile is not part of this action (SpecPonder has
\* the thread).
OpponentMove == pc = "turn" /\ ~is_my_turn /\ ApplyOpponentMove

\* main(), the opponent's turn: an empty line, "exit" or "gameover" is read.
OpponentGone ==
    /\ pc = "turn" /\ ~is_my_turn
    /\ pc' = "closed"
    /\ UNCHANGED <<role, white_bitmap, black_bitmap, transposition_table, move_count,
                   ret, time_left, hist, SearchVars, PureVars, ponder, mcts, net, gui>>

Next ==
    \/ OutOfTime
    \/ MakeMoveBegin
    \/ \E k \in (0..MaxChecks) \cup {Never} : Deepen(k)
    \/ Commit
    \/ \E left \in BOOLEAN : AfterMove(left)
    \/ OpponentMove
    \/ OpponentGone

Spec == Init /\ [][Next]_vars

----------------------------------------------------------------------------
(* Properties of make_move, checked under Spec                             *)

Range(seq) == {seq[i] : i \in 1..Len(seq)}

\* The legal moves of the agent's role in the position make_move was called on.
LegalAtCall ==
    IF role = "White" THEN generate_all_legal_moves("White", hist.white0, hist.black0)
    ELSE generate_all_legal_moves("Black", hist.black0, hist.white0)

\* The position of the call with move m of the agent's role applied.
AppliedAtCall(m) ==
    IF role = "White" THEN execute_move(m, hist.white0, hist.black0)
    ELSE LET nb == execute_move(m, hist.black0, hist.white0) IN <<nb[2], nb[1]>>

\* C1: when the position make_move is called on has at least one legal move
\* for the agent's role, the value make_move returns is one of those legal
\* moves: never None, never "exit", never a verdict, also when the time
\* budget was already used up at the first time check.
C1_ReturnsLegalMove ==
    (pc = "returned" /\ LegalAtCall # <<>>) => ret \in Range(LegalAtCall)

\* A call whose very first time check observed the overrun has returned a
\* legal move.
C1_Witness ==
    /\ pc = "returned" /\ LegalAtCall # <<>>
    /\ hist.searches = 1 /\ deadline = 0 /\ hist.overrun
    /\ ret \in Range(LegalAtCall)

\* C2: when the agent's role has no legal move in the position make_move is
\* called on, make_move returns "win: " followed by the opposing role, has run
\* no search, and leaves both bitmaps and the transposition table as they were.
C2_NoMoveVerdict ==
    (pc = "returned" /\ LegalAtCall = <<>>) =>
        /\ ret = <<"win: ", IF role = "White" THEN "Black" ELSE "White">>
        /\ hist.searches = 0
        /\ white_bitmap = hist.white0 /\ black_bitmap = hist.black0
        /\ transposition_table = hist.tt0

\* make_move has returned the verdict from a position with pawns of the role
\* on the board, all of them blocked.
C2_Witness ==
    /\ pc = "returned" /\ LegalAtCall = <<>>
    /\ (IF role = "White" THEN hist.white0 ELSE hist.black0) # {}
    /\ ret = <<"win: ", IF role = "White" THEN "Black" ELSE "White">>
    /\ white_bitmap = hist.white0 /\ black_bitmap = hist.black0

\* The indices, in generation order, of the legal moves of the call that end
\* on the final rank of the agent's role.
PromotionsAtCall ==
    {i \in 1..Len(LegalAtCall) :
        LegalAtCall[i][4] = (IF role = "White" THEN "8" ELSE "1")}

\* C3: when some legal move of the call ends on the final rank of the agent's
\* role, make_move returns the first such move in generation order, without
\* any search and without touching the transposition table, and the live
\* bitmaps are the position of the call with that move applied.
C3_ImmediatePromotion ==
    (pc = "returned" /\ PromotionsAtCall # {}) =>
        LET first == CHOOSE i \in PromotionsAtCall : \A j \in PromotionsAtCall : i <= j
        IN  /\ ret = LegalAtCall[first]
            /\ hist.searches = 0
            /\ transposition_table = hist.tt0
            /\ <<white_bitmap, black_bitmap>> = AppliedAtCall(LegalAtCall[first])

\* make_move has returned the first of two promoting moves, and the moved
\* pawn stands on the final rank of the live board.
C3_Witness ==
    /\ pc = "returned" /\ Cardinality(PromotionsAtCall) >= 2
    /\ ret = LegalAtCall[CHOOSE i \in PromotionsAtCall : \A j \in PromotionsAtCall : i <= j]
    /\ hist.searches = 0
    /\ convert_coord(SubSeq(ret, 3, 4)) \in
           (IF role = "White" THEN white_bitmap ELSE black_bitmap)

\* C4: when a time check inside an iteration of the deepening observes the
\* overrun, make_move returns the best move of the last iteration that ran
\* to its end, or the first legal move when no iteration did: the result of
\* the interrupted iteration is dropped.
C4_InterruptedIterationDropped ==
    (pc = "returned" /\ hist.interrupted) =>
        ret = (IF hist.completed # None THEN hist.completed ELSE LegalAtCall[1])

\* make_move has returned the candidate of an interrupted iteration although
\* an earlier iteration had run to its end with another best move.
C4_Diverges ==
    /\ pc = "returned" /\ hist.interrupted /\ hist.cut
    /\ hist.completed # None /\ ret # hist.completed

\* The squares a returned move names, read from its characters.
RetSource == CHOOSE cell \in Cells : coord_to_algebraic(cell[1], cell[2]) = SubSeq(ret, 1, 2)
RetTarget == CHOOSE cell \in Cells : coord_to_algebraic(cell[1], cell[2]) = SubSeq(ret, 3, 4)

OwnAtCall == IF role = "White" THEN hist.white0 ELSE hist.black0
OppAtCall == IF role = "White" THEN hist.black0 ELSE hist.white0
OwnLive == IF role = "White" THEN white_bitmap ELSE black_bitmap
OppLive == IF role = "White" THEN black_bitmap ELSE white_bitmap

\* C16: while make_move searches, the live bitmaps are those of the call; on
\* return they are the position of the call with exactly the returned move
\* applied: the source cleared and the destination set for the mover, a
\* captured opponent pawn removed, every other cell unchanged (and the
\* position of the call itself when a verdict is returned).
C16_LiveBoardFrame ==
    /\ pc \in {"deepen", "commit"} =>
          (white_bitmap = hist.white0 /\ black_bitmap = hist.black0)
    /\ (pc = "returned" /\ LegalAtCall = <<>>) =>
          (white_bitmap = hist.white0 /\ black_bitmap = hist.black0)
    /\ (pc = "returned" /\ LegalAtCall # <<>>) =>
          \A cell \in Cells :
             /\ cell \in OwnLive <=>
                   (cell = RetTarget \/ (cell \in OwnAtCall /\ cell # RetSource))
             /\ cell \in OppLive <=> (cell \in OppAtCall /\ cell # RetTarget)

\* make_move has returned a capture found by at least two iterations of the
\* deepening: the captured pawn is gone from the live board, the other
\* opponent pawns are still there.
C16_Witness ==
    /\ pc = "returned" /\ hist.searches >= 2
    /\ RetTarget \in OppAtCall
    /\ RetTarget \in OwnLive /\ RetTarget \notin OppLive
    /\ RetSource \notin OwnLive
    /\ OppLive # {}

\* C19: a deadline overrun inside the search gives finite values: the scores
\* _alpha_beta has stored in the transposition table and the score of the
\* move an interrupted iteration has returned (the value _alpha_beta returned
\* for that root move) are never one of the infinite sentinels.
C19_OverrunValuesFinite ==
    /\ \A key \in DOMAIN transposition_table :
          transposition_table[key].score \notin {PosInf, NegInf}
    /\ (pc \in {"commit", "returned"} /\ hist.cut) =>
          best_score \notin {PosInf, NegInf}

\* make_move has returned the move of an interrupted iteration whose score is
\* an infinite sentinel, and the sentinel is in the transposition table.
C19_Diverges ==
    /\ pc = "returned" /\ hist.cut
    /\ best_score \in {PosInf, NegInf}
    /\ \E key \in DOMAIN transposition_table :
          transposition_table[key].score \in {PosInf, NegInf}

\* Without an overrun the values are finite: a call no time check of which
\* observed the overrun leaves a finite best score.
NoOverrunValuesFinite ==
    (pc \in {"commit", "returned"} /\ hist.searches >= 1 /\ ~hist.overrun
        /\ LegalAtCall # <<>>) =>
          best_score \notin {PosInf, NegInf}

----------------------------------------------------------------------------
(* The search against plain minimax: SpecSearch                            *)

\* The variables the pure-function specifications leave at their initial
\* values.
GameVars == <<move_count, moves, best_move, best_score, deadline, checks, ret,
              time_left, hist, ponder, mcts, net, gui>>

GameVarsIdle ==
    /\ move_count = 0 /\ moves = <<>> /\ best_move = None /\ best_score = 0
    /\ deadline = Never /\ checks = 0 /\ ret = None /\ time_left = TRUE
    /\ hist = Idle /\ ponder = NoThread /\ mcts = NoSession /\ net = NoNet /\ gui = NoGui

\* Positions with three white and two black pawns, added to Setups.
SearchSetups ==
    { << <<"W", "a", "6">>, <<"W", "b", "5">>, <<"W", "c", "2">>,
         <<"B", "c", "6">>, <<"B", "c", "5">> >>,
      << <<"W", "c", "6">>, <<"W", "b", "5">>, <<"W", "c", "4">>,
         <<"B", "d", "6">>, <<"B", "d", "5">> >> }

\* The depths make_move searches while move_count < 10.
SearchDepths == 1..max_depth(0)

InitSearch ==
    /\ \E setup \in Setups \cup SearchSetups :
          LET boards == initialize_boards(setup)
          IN  white_bitmap = boards[1] /\ black_bitmap = boards[2]
    /\ role \in Roles
    /\ depth \in SearchDepths
    /\ transposition_table = <<>>
    /\ pc = "search_input"
    /\ query = <<>> /\ out = <<>>
    /\ GameVarsIdle

\* _iterative_search(depth) on the position, from an empty table, with no
\* time check observing an overrun: res is its result.
RunSearchWith(res) ==
    /\ out' = [move |-> res.move, score |-> res.score]
    /\ transposition_table' = res.tt
    /\ pc' = "search_done"
    /\ UNCHANGED <<role, white_bitmap, black_bitmap, depth, query, GameVars>>

RunSearch ==
    /\ pc = "search_input"
    /\ RunSearchWith(iterative_search(role, white_bitmap, black_bitmap, depth,
                                      <<>>, 0, Never))

NextSearch == RunSearch

SpecSearch == InitSearch /\ [][NextSearch]_vars

\* Plain depth-limited minimax over the tree _alpha_beta walks: the same
\* moves in the same order, the same children, the same evaluation at depth
\* 0 and at won positions, the same value for a node without moves; no
\* window, no table.
RECURSIVE plain_minimax(_, _, _, _)
RECURSIVE plain_fold(_, _, _, _, _, _, _)

plain_fold(white, black, d, r, mvs, i, best) ==
    IF i > Len(mvs) THEN best
    ELSE plain_fold(white, black, d, r, mvs, i + 1,
            IF r = "White"
            THEN Max(best, plain_minimax(Child(mvs[i], white, black, r)[1],
                                         Child(mvs[i], white, black, r)[2],
                                         d - 1, Opponent(r)))
            ELSE Min(best, plain_minimax(Child(mvs[i], white, black, r)[1],
                                         Child(mvs[i], white, black, r)[2],
                                         d - 1, Opponent(r))))

plain_expand(mvs, white, black, d, r) ==
    IF mvs = <<>> THEN (IF r = "White" THEN -9999 ELSE 9999)
    ELSE plain_fold(white, black, d, r, mvs, 1, IF r = "White" THEN NegInf ELSE PosInf)

plain_minimax(white, black, d, r) ==
    IF check_win_conditions(white, black) # "None" \/ d = 0
    THEN evaluate_position(white, black)
    ELSE plain_expand(generate_all_legal_moves(r, white, black), white, black, d, r)

\* The root: the first move, in generation order, with the best minimax value.
RECURSIVE plain_root_loop(_, _, _, _, _, _, _, _)

plain_root_after(v, r, white, black, d, mvs, i, bm, bs) ==
    IF (r = "White" /\ v > bs) \/ (r = "Black" /\ v < bs)
    THEN plain_root_loop(r, white, black, d, mvs, i + 1, mvs[i], v)
    ELSE plain_root_loop(r, white, black, d, mvs, i + 1, bm, bs)

plain_root_loop(r, white, black, d, mvs, i, bm, bs) ==
    IF i > Len(mvs) THEN [move |-> bm, score |-> bs]
    ELSE plain_root_after(
            plain_minimax(Child(mvs[i], white, black, r)[1],
                          Child(mvs[i], white, black, r)[2], d - 1, Opponent(r)),
            r, white, black, d, mvs, i, bm, bs)

plain_root_on(mvs, r, white, black, d) ==
    IF mvs = <<>> THEN [move |-> Exit, score |-> evaluate_terminal(r)]
    ELSE plain_root_loop(r, white, black, d, mvs, 1, None,
                         IF r = "White" THEN NegInf ELSE PosInf)

plain_root(r, white, black, d) ==
    plain_root_on(generate_legal_moves_for_role(r, white, black), r, white, black, d)

\* C5: for every position and depth on which the search runs to its end, the
\* move and the value returned by the alpha-beta search with transposition
\* table are the move and the value of plain depth-limited minimax over the same
\* tree with the same evaluation and the same move order.
C5_SearchEqualsMinimax ==
    pc = "search_done" =>
        out = plain_root(role, white_bitmap, black_bitmap, depth)

\* A search from an empty table has returned a move that is not the minimax
\* move, with a value that is not the minimax value.
C5_Diverges ==
    /\ pc = "search_done"
    /\ out.move # plain_root(role, white_bitmap, black_bitmap, depth).move
    /\ out.score # plain_root(role, white_bitmap, black_bitmap, depth).score

----------------------------------------------------------------------------
(* The move generators on a family of positions: SpecLegal                 *)

\* Bound of the model: the number of pawns of a position of the family.
MaxPawns == 2

\* The files the pawns of the family stand on: both edge files and their
\* neighbours.
PawnFiles == {0, 1, 6, 7}

\* The sets of at most k cells on the files PawnFiles.
RECURSIVE CellSets(_)
CellSets(k) ==
    IF k = 0 THEN {{}}
    ELSE CellSets(k - 1)
         \cup {s \cup {c} : s \in CellSets(k - 1), c \in Rows \X PawnFiles}

Own == IF role = "White" THEN white_bitmap ELSE black_bitmap
Opp == IF role = "White" THEN black_bitmap ELSE white_bitmap

InitLegal ==
    /\ \E occupied \in CellSets(MaxPawns) : \E white \in SUBSET occupied :
          white_bitmap = white /\ black_bitmap = occupied \ white
    /\ role \in Roles
    /\ transposition_table = <<>> /\ depth = 0
    /\ pc = "gen_input"
    /\ query = <<>> /\ out = <<>>
    /\ GameVarsIdle

\* generate_all_legal_moves(role, own_bitmap, opp_bitmap) of agent.py and of
\* client.py on the position.
Generate ==
    /\ pc = "gen_input"
    /\ out' = [agent |-> generate_all_legal_moves(role, Own, Opp),
               client |-> client_generate_all_legal_moves(role, Own, Opp)]
    /\ pc' = "gen_done"
    /\ UNCHANGED <<role, white_bitmap, black_bitmap, transposition_table, depth,
                   query, GameVars>>

NextLegal == Generate

SpecLegal == InitLegal /\ [][NextLegal]_vars

\* The move from cell (r, c) to cell (tr, tc) as the 4-character string.
MoveString(r, c, tr, tc) == coord_to_algebraic(r, c) \o coord_to_algebraic(tr, tc)

\* The starting rank of a role, from the rules: rank 2 (row 6) for White,
\* rank 7 (row 1) for Black; forward is towards row 0 for White.
Forward == IF role = "White" THEN -1 ELSE 1
HomeRow == IF role = "White" THEN 6 ELSE 1
Taken == white_bitmap \cup black_bitmap

\* C7: a two-square forward move is legal only from the mover's home rank and
\* only if the intermediate square and the destination square are both empty;
\* a pawn of either colour on the intermediate square makes it illegal.  This
\* holds for the oracle is_move_legal and for both generators.
C7_TwoSquareMove ==
    pc = "gen_done" =>
        \A src \in Cells :
            LET tr == src[1] + 2 * Forward
            IN  tr \in Rows =>
                LET m == MoveString(src[1], src[2], tr, src[2])
                    allowed == /\ src[1] = HomeRow
                               /\ <<src[1] + Forward, src[2]>> \notin Taken
                               /\ <<tr, src[2]>> \notin Taken
                IN  /\ is_move_legal(m, role, Own, Opp) = "True" => allowed
                    /\ m \in Range(out.agent) => allowed
                    /\ m \in Range(out.client) => allowed
                    /\ (src \in Own /\ allowed) =>
                          /\ is_move_legal(m, role, Own, Opp) = "True"
                          /\ m \in Range(out.agent)

\* An own pawn on its home rank with a pawn on the intermediate square and an
\* empty destination: the two-square move is rejected and not generated;
\* the pawn on the intermediate square is of the other colour.
C7_Witness ==
    /\ pc = "gen_done"
    /\ \E src \in Own :
          /\ src[1] = HomeRow
          /\ <<src[1] + Forward, src[2]>> \in Opp
          /\ <<src[1] + 2 * Forward, src[2]>> \notin Taken
          /\ is_move_legal(MoveString(src[1], src[2], src[1] + 2 * Forward, src[2]),
                           role, Own, Opp) = "False"
          /\ MoveString(src[1], src[2], src[1] + 2 * Forward, src[2])
                \notin Range(out.agent)

\* C8: a diagonal move, one file sideways and one rank forward, of an own pawn
\* is in the generated move set, and is accepted by is_move_legal, exactly when
\* the destination square holds an opponent pawn: never when it is empty or
\* holds an own pawn.
C8_DiagonalIsCapture ==
    pc = "gen_done" =>
        \A src \in Own : \A dc \in {-1, 1} :
            LET tr == src[1] + Forward
                tc == src[2] + dc
            IN  (tr \in Rows /\ tc \in Cols) =>
                LET m == MoveString(src[1], src[2], tr, tc)
                    capture == <<tr, tc>> \in Opp
                IN  /\ m \in Range(out.agent) <=> capture
                    /\ m \in Range(out.client) <=> capture
                    /\ is_move_legal(m, role, Own, Opp) = "True" <=> capture

\* An own pawn with an opponent pawn on one diagonal square, whose capture is
\* generated and accepted, and an empty other diagonal square, the move to
\* which is neither.
C8_Witness ==
    /\ pc = "gen_done"
    /\ \E src \in Own :
          /\ <<src[1] + Forward, src[2] - 1>> \in Opp
          /\ <<src[1] + Forward, src[2] + 1>> \in Cells \ Taken
          /\ MoveString(src[1], src[2], src[1] + Forward, src[2] - 1)
                \in Range(out.agent)
          /\ MoveString(src[1], src[2], src[1] + Forward, src[2] + 1)
                \notin Range(out.agent)
          /\ is_move_legal(MoveString(src[1], src[2], src[1] + Forward, src[2] + 1),
                           role, Own, Opp) = "False"

----------------------------------------------------------------------------
(* The legality oracle on move strings: SpecOracle                         *)

\* Positions the oracle is queried on: pawns on the edge files with a pawn of
\* the other colour on the opposite edge, pawns on their final and on their
\* home ranks, and a position with captures and blocked pawns.
OracleSetups ==
    { << <<"W", "a", "2">>, <<"B", "h", "3">>, <<"B", "a", "7">>, <<"W", "h", "6">> >>,
      << <<"W", "a", "8">>, <<"B", "h", "1">>, <<"W", "g", "2">>, <<"B", "b", "7">> >>,
      << <<"W", "h", "2">>, <<"B", "h", "7">>, <<"W", "b", "4">>, <<"B", "a", "5">>,
         <<"B", "b", "5">> >>,
      << <<"W", "b", "2">>, <<"B", "b", "3">>, <<"W", "g", "2">>, <<"B", "g", "4">>,
         <<"B", "h", "3">>, <<"W", "a", "6">> >> }

\* The move strings of the queries: every pair of coordinates over these file
\* and rank characters, and two strings that are not four characters long.
OracleFiles == {"backtick", "a", "b", "g", "h", "i", "A"}
OracleRanks == {DigitChars[i] : i \in 1..10} \cup {"x"}
OracleCoords == {<<f, k>> : f \in OracleFiles, k \in OracleRanks}
OracleQueries ==
    {from \o to : from \in OracleCoords, to \in OracleCoords}
        \cup {<<"a", "2", "a">>, <<"a", "2", "a", "3", "3">>}

InitOracle ==
    /\ \E setup \in OracleSetups :
          LET boards == initialize_boards(setup)
          IN  white_bitmap = boards[1] /\ black_bitmap = boards[2]
    /\ role \in Roles
    /\ transposition_table = <<>> /\ depth = 0
    /\ pc = "oracle_input"
    /\ query = <<>> /\ out = <<>>
    /\ GameVarsIdle

\* is_move_legal(move, role, own_bitmap, opp_bitmap) of client.py on a string.
IsMoveLegal(move) ==
    /\ pc = "oracle_input"
    /\ query' = move
    /\ out' = is_move_legal(move, role, Own, Opp)
    /\ pc' = "oracle_done"
    /\ UNCHANGED <<role, white_bitmap, black_bitmap, transposition_table, depth,
                   GameVars>>

NextOracle == \E move \in OracleQueries : IsMoveLegal(move)

SpecOracle == InitOracle /\ [][NextOracle]_vars

\* The square a coordinate names, from the rules: file letter a..h (either
\* case) and rank 1..8; the empty set when it names no square of the board.
SquareOf(f, k) ==
    {cell \in Cells : /\ FileChars[cell[2] + 1] = lower(f)
                      /\ k = DigitChars[(8 - cell[1]) + 1]}

\* The three legal shapes of a move, from the rules, for the role and the
\* position of the state.
ClaimedLegal(m) ==
    /\ Len(m) = 4
    /\ \E src \in SquareOf(m[1], m[2]) : \E dst \in SquareOf(m[3], m[4]) :
          /\ src \in Own
          /\ \/ /\ dst = <<src[1] + Forward, src[2]>>
                /\ dst \notin Taken
             \/ /\ src[1] = HomeRow
                /\ dst = <<src[1] + 2 * Forward, src[2]>>
                /\ <<src[1] + Forward, src[2]>> \notin Taken
                /\ dst \notin Taken
             \/ /\ dst[1] = src[1] + Forward
                /\ dst[2] \in {src[2] - 1, src[2] + 1}
                /\ dst \in Opp

OffBoard(m) ==
    Len(m) = 4 /\ (SquareOf(m[1], m[2]) = {} \/ SquareOf(m[3], m[4]) = {})

\* The query with str.lower() applied.
LowerQuery == [i \in 1..Len(query) |-> lower(query[i])]

\* C6: is_move_legal returns true exactly for an own pawn moving one square
\* straight forward onto an empty square, two squares straight forward from
\* its home rank over an empty square onto an empty square, or one square
\* diagonally forward onto an opponent pawn, and for nothing else.
C6_LegalShapes ==
    pc = "oracle_done" => (out = "True" <=> ClaimedLegal(query))

\* The White pawn on a2 is allowed to move to the coordinate left of a3: the
\* read of the board wraps to the Black pawn on h3.
C6_Diverges ==
    /\ pc = "oracle_done" /\ role = "White"
    /\ query = <<"a", "2", "backtick", "3">>
    /\ <<6, 0>> \in white_bitmap /\ <<5, 7>> \in black_bitmap
    /\ out = "True" /\ ~ClaimedLegal(query)

\* On the moves whose two coordinates name squares of the board the oracle
\* returns true exactly for the three shapes, and exactly for the moves the
\* generators return.
OracleOnBoard ==
    (pc = "oracle_done" /\ ~OffBoard(query)) =>
        /\ out = "True" <=> ClaimedLegal(query)
        /\ out = "True" <=> LowerQuery \in Range(generate_all_legal_moves(role, Own, Opp))

\* C9: is_move_legal returns false for every 4-character move whose source or
\* destination coordinate is off the board (file outside a..h or rank outside
\* 1..8).
C9_OffBoardRejected ==
    (pc = "oracle_done" /\ OffBoard(query)) => out = "False"

\* The call for the Black pawn on h7 and the coordinate right of h6 has left
\* is_move_legal with an IndexError instead of a return value.
C9_Diverges ==
    /\ pc = "oracle_done" /\ role = "Black"
    /\ query = <<"h", "7", "i", "6">>
    /\ <<1, 7>> \in black_bitmap
    /\ OffBoard(query) /\ out = "IndexError"

\* C10: the moves generate_all_legal_moves returns are exactly the moves for
\* which is_move_legal is true, each once, and the generator of agent.py
\* returns the same moves as the generator of client.py.
C10_GeneratorsMatchOracle ==
    pc = "oracle_done" =>
        /\ out = "True" <=>
              Cardinality({i \in DOMAIN client_generate_all_legal_moves(role, Own, Opp) :
                    client_generate_all_legal_moves(role, Own, Opp)[i] = LowerQuery}) = 1
        /\ generate_all_legal_moves(role, Own, Opp)
              = client_generate_all_legal_moves(role, Own, Opp)

\* is_move_legal is true for the Black pawn on a7 and the coordinate left of
\* a6, a move that neither generator returns.
C10_Diverges ==
    /\ pc = "oracle_done" /\ role = "Black" /\ out = "True"
    /\ query = <<"a", "7", "backtick", "6">>
    /\ LowerQuery \notin Range(client_generate_all_legal_moves(role, Own, Opp))
    /\ LowerQuery \notin Range(generate_all_legal_moves(role, Own, Opp))

----------------------------------------------------------------------------
(* The generators on the standard setup: SpecSetup                         *)

\* server.py: default_setup, split into its tokens, without "Setup".
default_setup ==
    << <<"W", "a", "2">>, <<"W", "b", "2">>, <<"W", "c", "2">>, <<"W", "d", "2">>,
       <<"W", "e", "2">>, <<"W", "f", "2">>, <<"W", "g", "2">>, <<"W", "h", "2">>,
       <<"B", "a", "7">>, <<"B", "b", "7">>, <<"B", "c", "7">>, <<"B", "d", "7">>,
       <<"B", "e", "7">>, <<"B", "f", "7">>, <<"B", "g", "7">>, <<"B", "h", "7">> >>

\* Bound of the model: the number of tokens left out of default_setup.
MaxDropped == 2

\* seq without the elements whose index is in drop.
RECURSIVE Without(_, _, _)
Without(seq, drop, i) ==
    IF i > Len(seq) THEN <<>>
    ELSE (IF i \in drop THEN <<>> ELSE <<seq[i]>>) \o Without(seq, drop, i + 1)

\* The sets of at most k indices of default_setup.
RECURSIVE IndexSets(_)
IndexSets(k) ==
    IF k = 0 THEN {{}}
    ELSE IndexSets(k - 1)
         \cup {s \cup {i} : s \in IndexSets(k - 1), i \in 1..Len(default_setup)}

\* The setup messages of the family: default_setup with at most MaxDropped
\* tokens left out.
StandardSetups == {Without(default_setup, drop, 1) : drop \in IndexSets(MaxDropped)}

InitSetup ==
    /\ query \in StandardSetups
    /\ white_bitmap = initialize_boards(query)[1]
    /\ black_bitmap = initialize_boards(query)[2]
    /\ role \in Roles
    /\ transposition_table = <<>> /\ depth = 0
    /\ pc = "gen_input"
    /\ out = <<>>
    /\ GameVarsIdle

SpecSetup == InitSetup /\ [][NextLegal]_vars

\* The one-step and the two-step moves of a generated list, by the ranks in
\* the move strings.
RankStep(m) == (int(m[4]) - int(m[2])) * (IF role = "White" THEN 1 ELSE -1)
StepMoves(list, n) == {i \in DOMAIN list : list[i][1] = list[i][3] /\ RankStep(list[i]) = n}

\* C11: from the standard 16-pawn setup generate_all_legal_moves returns
\* exactly 16 moves for White, 8 one-step and 8 two-step moves, and likewise
\* exactly 16 moves for Black; the generator of client.py returns the same.
C11_StandardSetupMoves ==
    (pc = "gen_done" /\ query = default_setup) =>
        /\ Len(out.agent) = 16
        /\ Cardinality(Range(out.agent)) = 16
        /\ Cardinality(StepMoves(out.agent, 1)) = 8
        /\ Cardinality(StepMoves(out.agent, 2)) = 8
        /\ out.client = out.agent

\* The moves of Black from the standard setup have been generated: 16 of
\* them, a7a6 the first and h7h5 the last.
C11_Witness ==
    /\ pc = "gen_done" /\ query = default_setup /\ role = "Black"
    /\ Cardinality(white_bitmap) = 8 /\ Cardinality(black_bitmap) = 8
    /\ Len(out.agent) = 16
    /\ out.agent[1] = <<"a", "7", "a", "6">>
    /\ out.agent[16] = <<"h", "7", "h", "5">>

----------------------------------------------------------------------------
(* The terminal detectors on the family of positions: SpecTerminal         *)

\* check_win_conditions(white_bitmap, black_bitmap) of agent.py and of
\* client.py on the position.
CheckWin ==
    /\ pc = "gen_input"
    /\ out' = [agent |-> check_win_conditions(white_bitmap, black_bitmap),
               client |-> client_check_win_conditions(white_bitmap, black_bitmap)]
    /\ pc' = "win_done"
    /\ UNCHANGED <<role, white_bitmap, black_bitmap, transposition_table, depth,
                   query, GameVars>>

NextTerminal == CheckWin

SpecTerminal == InitLegal /\ [][NextTerminal]_vars

WhitePromoted == \E c \in Cols : <<0, c>> \in white_bitmap
BlackPromoted == \E c \in Cols : <<7, c>> \in black_bitmap

\* C12: for every position with a White pawn on row 0 check_win_conditions
\* returns "White wins", whatever pawns Black has and wherever they stand.
C12_PromotionDominates ==
    (pc = "win_done" /\ WhitePromoted) =>
        (out.agent = "White wins" /\ out.client = "White wins")

\* With a White pawn on row 0 and a Black pawn on row 7 in a column further
\* left, agent.py returns "Black wins" where client.py returns "White wins".
C12_Diverges ==
    /\ pc = "win_done" /\ WhitePromoted /\ BlackPromoted
    /\ out.agent = "Black wins" /\ out.client = "White wins"

\* The detector of client.py returns "White wins" for every position with a
\* White pawn on row 0.
ClientPromotionDominates ==
    (pc = "win_done" /\ WhitePromoted) => out.client = "White wins"

\* The winner a detector has to return for a position without promoted pawn
\* in which a side has no pawn: the other side; on the empty board either.
ZeroPawnVerdictOK(result) ==
    /\ (black_bitmap = {} /\ white_bitmap # {}) => result = "White wins"
    /\ (white_bitmap = {} /\ black_bitmap # {}) => result = "Black wins"
    /\ (white_bitmap = {} /\ black_bitmap = {}) => result # "None"

\* C13: for every position without a promoted pawn, a side that has no pawn
\* is reported by check_win_conditions as the loser (the other side is
\* returned as the winner), however many pawns the opponent has.
C13_ZeroPawnsLose ==
    (pc = "win_done" /\ ~WhitePromoted /\ ~BlackPromoted) =>
        (ZeroPawnVerdictOK(out.agent) /\ ZeroPawnVerdictOK(out.client))

\* Black has no pawn, White has unpromoted pawns: agent.py returns None,
\* client.py returns "White wins".
C13_Diverges ==
    /\ pc = "win_done" /\ ~WhitePromoted
    /\ black_bitmap = {} /\ white_bitmap # {}
    /\ out.agent = "None" /\ out.client = "White wins"

\* The detector of client.py reports a side without pawns as the loser.
ClientZeroPawnsLose ==
    (pc = "win_done" /\ ~WhitePromoted /\ ~BlackPromoted) => ZeroPawnVerdictOK(out.client)

WhiteStuck == generate_all_legal_moves("White", white_bitmap, black_bitmap) = <<>>
BlackStuck == generate_all_legal_moves("Black", black_bitmap, white_bitmap) = <<>>

\* The winner a detector has to return when a side has no legal move: never
\* None, and the loser is a side without legal move.
StalemateVerdictOK(result) ==
    (WhiteStuck \/ BlackStuck) =>
        /\ result # "None"
        /\ result = "Black wins" => WhiteStuck
        /\ result = "White wins" => BlackStuck

\* C14: for every position with no promoted pawn and at least one pawn on each
\* side, a side that has no legal move is reported by check_win_conditions as
\* the loser, and None is never returned.
C14_StalemateLoses ==
    (pc = "win_done" /\ ~WhitePromoted /\ ~BlackPromoted
        /\ white_bitmap # {} /\ black_bitmap # {}) =>
        (StalemateVerdictOK(out.agent) /\ StalemateVerdictOK(out.client))

\* A White pawn blocked by a Black pawn in front of it, no other pawn:
\* agent.py returns None, client.py returns "Black wins".
C14_Diverges ==
    /\ pc = "win_done" /\ ~WhitePromoted /\ ~BlackPromoted
    /\ Cardinality(white_bitmap) = 1 /\ Cardinality(black_bitmap) = 1
    /\ WhiteStuck
    /\ out.agent = "None" /\ out.client = "Black wins"

\* The detector of client.py reports a side without legal move as the loser.
ClientStalemateLoses ==
    (pc = "win_done" /\ ~WhitePromoted /\ ~BlackPromoted
        /\ white_bitmap # {} /\ black_bitmap # {}) => StalemateVerdictOK(out.client)

----------------------------------------------------------------------------
(* initialize_boards followed by execute_move calls: SpecBoards            *)

\* Setup messages: disjoint squares, a square named for both colours, a
\* square named twice for one colour.
BoardSetups ==
    { << <<"W", "a", "2">>, <<"B", "b", "3">> >>,
      << <<"W", "a", "2">>, <<"B", "a", "2">> >>,
      << <<"W", "a", "3">>, <<"W", "a", "3">>, <<"B", "b", "4">>, <<"B", "a", "4">> >>,
      << <<"W", "b", "2">>, <<"B", "b", "4">>, <<"b", "b", "2">>, <<"W", "a", "4">> >> }

\* The moves of the execute_move calls: every pair of these squares, whether
\* or not a pawn stands on the source and whatever stands on the destination.
BoardCoords == {<<f, k>> : f \in {"a", "b"}, k \in {"2", "3", "4"}}
BoardMoves == {from \o to : from \in BoardCoords, to \in BoardCoords}

InitBoards ==
    /\ \E setup \in BoardSetups :
          /\ white_bitmap = initialize_boards(setup)[1]
          /\ black_bitmap = initialize_boards(setup)[2]
    /\ role = "White"
    /\ transposition_table = <<>> /\ depth = 0
    /\ pc = "boards_set"
    /\ query = <<>> /\ out = <<>>
    /\ GameVarsIdle

\* execute_move(move, own_bitmap, opp_bitmap) with the bitmaps of the mover
\* as own_bitmap.
ExecuteMove(mover, move) ==
    /\ pc \in {"boards_set", "boards_moved"}
    /\ white_bitmap' = Child(move, white_bitmap, black_bitmap, mover)[1]
    /\ black_bitmap' = Child(move, white_bitmap, black_bitmap, mover)[2]
    /\ pc' = "boards_moved"
    /\ UNCHANGED <<role, transposition_table, depth, query, out, GameVars>>

NextBoards == \E mover \in Roles : \E move \in BoardMoves : ExecuteMove(mover, move)

SpecBoards == InitBoards /\ [][NextBoards]_vars

\* C15: after initialize_boards on any setup string and after any sequence of
\* execute_move calls on the resulting boards, no cell is True in both the
\* white and the black bitmap.
C15_SquareExclusivity == white_bitmap \cap black_bitmap = {}

\* After an execute_move call a cell is still True in both bitmaps.
C15_Diverges ==
    /\ pc = "boards_moved"
    /\ <<6, 0>> \in white_bitmap \cap black_bitmap

\* execute_move never makes a cell True in both bitmaps: from boards without
\* such a cell it leads to boards without such a cell.
ExecuteMoveKeepsExclusivity ==
    [][(white_bitmap \cap black_bitmap = {}) => (white_bitmap' \cap black_bitmap' = {})]_vars


----------------------------------------------------------------------------
(* Pondering during the opponent's turn: SpecPonder                        *)

\* Cap on current_depth of ponder_loop (the loop itself has none).
MaxPonderDepth == 2

\* Setups of the games with pondering: a capture race, a White without a
\* legal move, a Black without a legal move.
PonderSetups ==
    { << <<"W", "a", "2">>, <<"B", "b", "3">> >>,
      << <<"W", "a", "3">>, <<"B", "a", "4">>, <<"B", "c", "7">> >>,
      << <<"W", "a", "3">>, <<"B", "a", "4">>, <<"W", "h", "2">> >> }

\* Indices, within one _alpha_beta call of the thread or one iteration of
\* make_move, of the first time check that observes the overrun.
PonderClock == {Never, 0, 2}

InitPonder ==
    /\ \E setup \in PonderSetups :
          LET boards == initialize_boards(setup)
          IN  white_bitmap = boards[1] /\ black_bitmap = boards[2]
    /\ role \in Roles
    /\ transposition_table = <<>>
    /\ pc = "turn"
    /\ depth = 0
    /\ query = <<>> /\ out = <<>>
    /\ GameVarsIdle

MainVars == <<role, white_bitmap, black_bitmap, move_count, ret, time_left, hist,
              SearchVars, PureVars, mcts, net, gui>>

\* start_pondering: a new Event and a new thread, which starts at the top of
\* ponder_loop with current_depth = 1.  The deadline of the last make_move
\* has passed if that call observed it.
StartPondering ==
    /\ pc = "turn" /\ ~is_my_turn
    /\ ponder' = [NoThread EXCEPT !.alive = TRUE, !.at = "loop", !.current_depth = 1,
                                  !.overrun = hist.overrun, !.last = "start"]
    /\ pc' = "readline"
    /\ UNCHANGED <<transposition_table, MainVars>>

\* readline() has returned; stop_pondering sets the event.
ReadLine ==
    /\ pc = "readline"
    /\ ponder' = [ponder EXCEPT !.stop = TRUE]
    /\ pc' = "join"
    /\ UNCHANGED <<transposition_table, MainVars>>

\* stop_pondering: ponder_thread.join() returns when the thread has ended.
Join ==
    /\ pc = "join" /\ ~ponder.alive
    /\ pc' = "joined"
    /\ UNCHANGED <<transposition_table, ponder, MainVars>>

\* main() after stop_pondering: the opponent's move.
OpponentMoveJoined == pc = "joined" /\ ApplyOpponentMove

\* main() after stop_pondering: an empty line, "exit" or "gameover" was read.
OpponentGoneJoined ==
    /\ pc = "joined"
    /\ pc' = "closed"
    /\ UNCHANGED <<transposition_table, ponder, MainVars>>

\* The thread has ended: its local variables are gone, the event stays as it
\* is.
Ended(how) == [NoThread EXCEPT !.stop = ponder.stop, !.last = how]

\* _iterative_search_ponder has returned: ponder_loop increments current_depth
\* and is at the top of its loop again.
Returned(how, over) ==
    [NoThread EXCEPT !.stop = ponder.stop, !.alive = TRUE, !.at = "loop",
                     !.current_depth = ponder.current_depth + 1,
                     !.overrun = over, !.last = how]

\* The top of the while loop of ponder_loop: the poll of the event, and, if it
\* is not set, _iterative_search_ponder(current_depth) up to its for loop.
PonderLoop ==
    /\ ponder.alive /\ ponder.at = "loop"
    /\ IF ponder.stop THEN ponder' = Ended("terminate")
       ELSE /\ ponder.current_depth <= MaxPonderDepth
            /\ LET mvs == generate_legal_moves_for_role(role, white_bitmap, black_bitmap)
               IN  IF mvs = <<>> THEN ponder' = Returned("iterate", ponder.overrun)
                   ELSE ponder' = [ponder EXCEPT
                          !.at = "root", !.moves = mvs, !.index = 1,
                          !.best_move = None,
                          !.best_score = IF role = "White" THEN NegInf ELSE PosInf,
                          !.alpha = NegInf, !.beta = PosInf, !.last = "iterate"]
    /\ UNCHANGED <<pc, transposition_table, MainVars>>

\* The update of the thread after _alpha_beta on the child of the current root
\* move has returned res under the clock dl.
EvaluatedWith(res, dl) ==
    LET better == IF role = "White" THEN res.score > ponder.best_score
                  ELSE res.score < ponder.best_score
        bs1 == IF better THEN res.score ELSE ponder.best_score
        bm1 == IF better THEN ponder.moves[ponder.index] ELSE ponder.best_move
        alpha1 == IF role = "White" THEN Max(ponder.alpha, bs1) ELSE ponder.alpha
        beta1 == IF role = "White" THEN ponder.beta ELSE Min(ponder.beta, bs1)
        over == TimeUp(res.n - 1, dl)
    IN  /\ transposition_table' = res.tt
        /\ ponder' = IF beta1 <= alpha1 \/ ponder.index = Len(ponder.moves)
                     THEN Returned("evaluate", over)
                     ELSE [ponder EXCEPT !.index = @ + 1, !.best_move = bm1,
                                         !.best_score = bs1, !.alpha = alpha1,
                                         !.beta = beta1, !.overrun = over,
                                         !.last = "evaluate"]

\* A variant of PonderEvaluate that simulates the root move on the live
\* bitmaps instead of on deep copies.
PonderEvaluate_inplace(dl) ==
    /\ EvaluatedWith(
          alpha_beta(Child(ponder.moves[ponder.index], white_bitmap, black_bitmap, role)[1],
                     Child(ponder.moves[ponder.index], white_bitmap, black_bitmap, role)[2],
                     ponder.current_depth - 1, ponder.alpha, ponder.beta,
                     Opponent(role), transposition_table, 0, dl),
          dl)
    /\ ExecuteLive(ponder.moves[ponder.index])

\* The body of the for loop of _iterative_search_ponder: the root move is
\* executed on deep copies of the live bitmaps and searched by _alpha_beta,
\* which writes the transposition table.
PonderEvaluate(dl) ==
    /\ EvaluatedWith(
          alpha_beta(Child(ponder.moves[ponder.index], white_bitmap, black_bitmap, role)[1],
                     Child(ponder.moves[ponder.index], white_bitmap, black_bitmap, role)[2],
                     ponder.current_depth - 1, ponder.alpha, ponder.beta,
                     Opponent(role), transposition_table, 0, dl),
          dl)
    /\ UNCHANGED <<white_bitmap, black_bitmap>>

\* A variant of PonderRoot whose for loop does not poll the event.
PonderRoot_nopoll(k) ==
    /\ ponder.alive /\ ponder.at = "root"
    /\ IF ~hist.started
       THEN /\ ponder' = Ended("raise")
            /\ UNCHANGED <<white_bitmap, black_bitmap, transposition_table>>
       ELSE PonderEvaluate(IF ponder.overrun THEN 0 ELSE k)
    /\ UNCHANGED <<pc, role, move_count, ret, time_left, hist, SearchVars, PureVars, mcts, net, gui>>

\* One pass of the for loop of _iterative_search_ponder: the poll of the
\* event; if it is set the loop is left and the function returns; else the
\* root move is evaluated.  As long as make_move has not been called,
\* self.start_time is None, the time check of _alpha_beta raises TypeError
\* and ponder_loop leaves its loop ("except Exception: break").
PonderRoot(k) ==
    /\ ponder.alive /\ ponder.at = "root"
    /\ IF ponder.stop
       THEN /\ ponder' = Returned("return", ponder.overrun)
            /\ UNCHANGED <<white_bitmap, black_bitmap, transposition_table>>
       ELSE IF ~hist.started
       THEN /\ ponder' = Ended("raise")
            /\ UNCHANGED <<white_bitmap, black_bitmap, transposition_table>>
       ELSE PonderEvaluate(IF ponder.overrun THEN 0 ELSE k)
    /\ UNCHANGED <<pc, role, move_count, ret, time_left, hist, SearchVars, PureVars, mcts, net, gui>>

\* The steps of the ponder thread.
PonderThread == PonderLoop \/ \E k \in PonderClock : PonderRoot(k)

NextPonder ==
    \/ OutOfTime
    \/ MakeMoveBegin
    \/ \E k \in PonderClock : Deepen(k)
    \/ Commit
    \/ \E left \in BOOLEAN : AfterMove(left)
    \/ StartPondering
    \/ ReadLine
    \/ Join
    \/ OpponentMoveJoined
    \/ OpponentGoneJoined
    \/ PonderLoop
    \/ \E k \in PonderClock : PonderRoot(k)

\* The steps of the thread once the event is set.
PonderThreadStopping == ponder.stop /\ PonderThread

\* The thread is a running thread of the process: it is scheduled as long as
\* it has a step to take.  The fairness condition is stated for the steps
\* after the event is set, the ones the main thread waits for in join().
SpecPonder == InitPonder /\ [][NextPonder]_vars /\ WF_vars(PonderThreadStopping)

\* C17: while the ponder thread is alive no step changes the live bitmaps, and
\* the thread is alive only between start_pondering and the return of
\* stop_pondering: the main thread is in readline() or in join(), it neither
\* applies the opponent's move nor runs make_move.
C17_LiveBoardsQuietWhilePondering ==
    /\ [][ponder.alive => UNCHANGED <<white_bitmap, black_bitmap>>]_vars
    /\ [](ponder.alive => pc \in {"readline", "join"})

\* The thread has evaluated a root move, with its writes to the transposition
\* table, and is still running while the main thread waits in join().
C17_Witness ==
    /\ ponder.alive /\ ponder.last = "evaluate" /\ pc = "join"
    /\ transposition_table # <<>>

\* C18: once the event is set the thread starts no depth iteration and no
\* root-move evaluation (its only steps are the return from the for loop and
\* its end, and the transposition table stays as it is); the thread ends; and
\* the main thread is past stop_pondering only when the thread has ended.
C18_PonderingCancellable ==
    /\ [][(ponder.stop /\ ponder.alive) =>
              /\ transposition_table' = transposition_table
              /\ ponder' # ponder => ponder'.last \in {"return", "terminate"}]_vars
    /\ (ponder.stop /\ ponder.alive) ~> ~ponder.alive
    /\ [](pc = "joined" => ~ponder.alive)

\* Pondering was started before the first make_move on a position in which
\* the agent has no legal move; the thread ran through its iterations, ended
\* at the poll after the event was set, and stop_pondering has returned.
C18_Witness ==
    /\ pc = "joined" /\ ~hist.started
    /\ generate_legal_moves_for_role(role, white_bitmap, black_bitmap) = <<>>
    /\ ponder.stop /\ ponder.last = "terminate"

\* Pondering started before the first make_move with legal moves ends by the
\* TypeError of the time check, set event or not.
PonderRaisesBeforeFirstMove ==
    [][(ponder.alive /\ ponder'.last = "raise") =>
          (~ponder'.alive /\ ~hist.started)]_vars


----------------------------------------------------------------------------
(* The dynamic evaluation on the family of positions: SpecEval             *)

\* The global weights in effect (the second assignment of the module).
weights ==
    [win_score |-> 10000, material |-> 10, promotion_bonus |-> 1000,
     advancement |-> 30, passed_pawn |-> 250, white_advancement |-> 30,
     white_passed_pawn |-> 150]

\* is_passed_pawn(own_bitmap, opp_bitmap, row, col, side): no opposing pawn on
\* the file or the two neighbouring files on the rows ahead.
is_passed_pawn(own, opp, row, col, side) ==
    LET ahead == IF side = "Black" THEN {r \in Rows : r >= row + 1}
                 ELSE {r \in Rows : r <= row - 1}
    IN  ~ \E r \in ahead : \E cc \in {col - 1, col, col + 1} :
             cc \in Cols /\ <<r, cc>> \in opp

\* evaluate_board_dynamic: what the body of the two loops adds to score for
\* one cell (the white branch is the elif of the black one).
dynamic_cell(white, black, cell) ==
    IF cell \in black
    THEN (IF cell[1] = 6 THEN weights.promotion_bonus ELSE 0)
         + weights.advancement * cell[1]
         + (IF is_passed_pawn(black, white, cell[1], cell[2], "Black")
            THEN weights.passed_pawn + weights.advancement * cell[1] ELSE 0)
    ELSE IF cell \in white
    THEN - weights.white_advancement * (7 - cell[1])
         - (IF is_passed_pawn(white, black, cell[1], cell[2], "White")
            THEN weights.white_passed_pawn + weights.white_advancement * (7 - cell[1])
            ELSE 0)
    ELSE 0

\* evaluate_board_dynamic: the two loops over the cells.
RECURSIVE dynamic_sum(_, _, _)
dynamic_sum(cells, white, black) ==
    IF cells = {} THEN 0
    ELSE LET x == CHOOSE y \in cells : TRUE
         IN  dynamic_cell(white, black, x) + dynamic_sum(cells \ {x}, white, black)

\* evaluate_board_dynamic: score, from Black's perspective.
dynamic_score(white, black) ==
    IF check_win_conditions(white, black) = "Black wins" THEN weights.win_score
    ELSE IF check_win_conditions(white, black) = "White wins" THEN - weights.win_score
    ELSE weights.material * (Cardinality(black) - Cardinality(white))
         + dynamic_sum(white \cup black, white, black)

\* A variant of evaluate_board_dynamic that inverts the score for White only
\* when the position has no winner.
evaluate_board_dynamic_terminal(white, black, r) ==
    IF r = "Black" \/ check_win_conditions(white, black) # "None"
    THEN dynamic_score(white, black)
    ELSE - dynamic_score(white, black)

\* evaluate_board_dynamic(white_bitmap, black_bitmap, role).
evaluate_board_dynamic(white, black, r) ==
    IF r = "Black" THEN dynamic_score(white, black) ELSE - dynamic_score(white, black)

\* evaluate_board_dynamic on the position for both roles.
EvaluateBoard ==
    /\ pc = "gen_input"
    /\ out' = [white |-> evaluate_board_dynamic(white_bitmap, black_bitmap, "White"),
               black |-> evaluate_board_dynamic(white_bitmap, black_bitmap, "Black")]
    /\ pc' = "eval_done"
    /\ UNCHANGED <<role, white_bitmap, black_bitmap, transposition_table, depth,
                   query, GameVars>>

NextEval == EvaluateBoard

SpecEval == InitLegal /\ [][NextEval]_vars

\* C20: the evaluation of a position for White is the negation of its
\* evaluation for Black, with a winner on the board or without.
C20_SignFlip ==
    pc = "eval_done" => out.white = - out.black

\* A position White has won is evaluated: win_score for White, its negation
\* for Black.
C20_Witness ==
    /\ pc = "eval_done"
    /\ check_win_conditions(white_bitmap, black_bitmap) = "White wins"
    /\ out.white = weights.win_score /\ out.black = - weights.win_score

\* A position without a winner and with pawns of both sides has a score that
\* is not zero.
EvalNonTerminalWitness ==
    /\ pc = "eval_done"
    /\ check_win_conditions(white_bitmap, black_bitmap) = "None"
    /\ white_bitmap # {} /\ black_bitmap # {}
    /\ out.white > 0 /\ out.black = - out.white


----------------------------------------------------------------------------
(* The dynamic evaluation on crowded positions: SpecDominance              *)

\* Positions with Black pawns on row 6 (any set of files) and White pawns
\* among three squares: none of them has a promoted pawn or a shared square.
InitDominance ==
    /\ \E black \in SUBSET ({6} \X Cols) :
       \E white \in SUBSET {<<5, 7>>, <<7, 3>>, <<1, 0>>} :
          white_bitmap = white /\ black_bitmap = black
    /\ role \in Roles
    /\ transposition_table = <<>> /\ depth = 0
    /\ pc = "gen_input"
    /\ query = <<>> /\ out = <<>>
    /\ GameVarsIdle

SpecDominance == InitDominance /\ [][NextEval]_vars

NoPromotedPawn ==
    /\ \A c \in Cols : <<0, c>> \notin white_bitmap /\ <<7, c>> \notin black_bitmap
    /\ white_bitmap \cap black_bitmap = {}
    /\ Cardinality(white_bitmap) <= 8 /\ Cardinality(black_bitmap) <= 8

\* C21: for a position without a promoted pawn the absolute value of
\* evaluate_board_dynamic is strictly less than win_score.
C21_WinScoreDominates ==
    (pc = "eval_done" /\ NoPromotedPawn) =>
       (out.black < weights.win_score /\ out.black > - weights.win_score
        /\ out.white < weights.win_score /\ out.white > - weights.win_score)

\* Seven Black pawns on row 6 and no winner: the evaluation for Black is above
\* win_score.
C21_Diverges ==
    /\ pc = "eval_done" /\ NoPromotedPawn
    /\ check_win_conditions(white_bitmap, black_bitmap) = "None"
    /\ Cardinality(black_bitmap) = 7
    /\ out.black > weights.win_score

\* Up to six pawns per side the bound holds on these positions.
WinScoreDominatesUpToSix ==
    (pc = "eval_done" /\ NoPromotedPawn /\ Cardinality(black_bitmap) <= 6) =>
       (out.black < weights.win_score /\ out.black > - weights.win_score)


----------------------------------------------------------------------------
(* The coordinate conversions and the setup parser: SpecCoord              *)

\* The strings given to convert_coord: all strings of two characters of
\* Chars, and those followed by a third character.
CoordStrings ==
    {<<f, r>> : f \in Chars, r \in Chars}
       \cup {<<f, r, "3">> : f \in Chars, r \in Chars}

\* The inputs: a cell for coord_to_algebraic, a string for convert_coord, a
\* colour and a square string (one setup token) for initialize_boards.
CoordQueries ==
    {[kind |-> "cell", cell |-> cell] : cell \in Cells}
       \cup {[kind |-> "coord", coord |-> s] : s \in CoordStrings}
       \cup {[kind |-> "setup", token |-> <<color>> \o s] :
                color \in {"W", "B"}, s \in CoordStrings}

InitCoord ==
    /\ query \in CoordQueries
    /\ white_bitmap = {} /\ black_bitmap = {}
    /\ role = "White"
    /\ transposition_table = <<>> /\ depth = 0
    /\ pc = "coord_input"
    /\ out = <<>>
    /\ GameVarsIdle

CoordFrame == UNCHANGED <<role, white_bitmap, black_bitmap, transposition_table,
                          depth, query, GameVars>>

\* coord_to_algebraic(row, col), and convert_coord on its result.
ToAlgebraic ==
    /\ pc = "coord_input" /\ query.kind = "cell"
    /\ out' = [coord |-> coord_to_algebraic(query.cell[1], query.cell[2]),
               back |-> convert_coord(coord_to_algebraic(query.cell[1], query.cell[2]))]
    /\ pc' = "coord_done"
    /\ CoordFrame

\* convert_coord(coord): it raises, or it returns a pair; coord_to_algebraic
\* on the pair when it is a cell of the board.
ConvertCoord ==
    /\ pc = "coord_input" /\ query.kind = "coord"
    /\ out' = IF convert_coord_raises(query.coord) THEN [raised |-> TRUE]
              ELSE [raised |-> FALSE, cell |-> convert_coord(query.coord),
                    back |-> IF convert_coord(query.coord) \in Cells
                             THEN coord_to_algebraic(convert_coord(query.coord)[1],
                                                     convert_coord(query.coord)[2])
                             ELSE None]
    /\ pc' = "coord_done"
    /\ CoordFrame

\* initialize_boards on a setup message with the one token: it raises, or it
\* returns the two bitmaps.
InitializeBoards ==
    /\ pc = "coord_input" /\ query.kind = "setup"
    /\ out' = IF initialize_boards_raises(<<query.token>>) THEN [raised |-> TRUE]
              ELSE [raised |-> FALSE,
                    white |-> initialize_boards(<<query.token>>)[1],
                    black |-> initialize_boards(<<query.token>>)[2]]
    /\ pc' = "coord_done"
    /\ CoordFrame

NextCoord == ToAlgebraic \/ ConvertCoord \/ InitializeBoards

SpecCoord == InitCoord /\ [][NextCoord]_vars

\* A valid algebraic string: a file a..h followed by a rank 1..8.
ValidCoord(s) ==
    /\ Len(s) = 2
    /\ s[1] \in {"a", "b", "c", "d", "e", "f", "g", "h"}
    /\ s[2] \in {"1", "2", "3", "4", "5", "6", "7", "8"}

\* C22: convert_coord undoes coord_to_algebraic on the 64 cells, and
\* coord_to_algebraic undoes convert_coord on the valid algebraic strings.
C22_CoordRoundTrip ==
    /\ (pc = "coord_done" /\ query.kind = "cell") => out.back = query.cell
    /\ (pc = "coord_done" /\ query.kind = "coord" /\ ValidCoord(query.coord)) =>
          (~out.raised /\ out.back = query.coord)

\* "h1" has been converted to row 7, column 7 and back.
C22_Witness ==
    /\ pc = "coord_done" /\ query.kind = "coord"
    /\ query.coord = <<"h", "1">>
    /\ ~out.raised /\ out.cell = <<7, 7>> /\ out.back = <<"h", "1">>

\* C23: convert_coord raises, and returns no pair, on every string that is
\* not a valid algebraic string; a setup token whose square string has a file
\* outside a..h or a rank outside 1..8 sets no cell of either bitmap.
OffBoardToken(token) ==
    \/ token[2] \notin {"a", "b", "c", "d", "e", "f", "g", "h", "A"}
    \/ token[3] \notin {"1", "2", "3", "4", "5", "6", "7", "8"}

C23_InvalidCoordRejected ==
    /\ (pc = "coord_done" /\ query.kind = "coord" /\ ~ValidCoord(query.coord)) =>
          out.raised
    /\ (pc = "coord_done" /\ query.kind = "setup" /\ OffBoardToken(query.token)) =>
          (out.raised \/ (out.white = {} /\ out.black = {}))

\* convert_coord has returned a pair for "a9", and the setup token "Wa9" has
\* set a cell of the white bitmap.
C23_Diverges ==
    /\ pc = "coord_done"
    /\ \/ /\ query.kind = "coord" /\ query.coord = <<"a", "9">>
          /\ ~out.raised /\ out.cell = <<-1, 0>>
       \/ /\ query.kind = "setup" /\ query.token = <<"W", "a", "9">>
          /\ ~out.raised /\ out.white = {<<7, 0>>}

\* What convert_coord does reject: a second character that is not a digit.
ConvertCoordRaisesOnNonDigit ==
    (pc = "coord_done" /\ query.kind = "coord") =>
       (out.raised <=> query.coord[2] \notin {DigitChars[i] : i \in 1..10})


----------------------------------------------------------------------------
(* The choice among root moves of equal value: SpecTie                     *)

\* The depths searched on the family of positions.
TieDepths == 1..2

\* The positions of InitLegal, each to be searched to a depth of TieDepths.
InitTie ==
    /\ \E occupied \in CellSets(MaxPawns) : \E white \in SUBSET occupied :
          white_bitmap = white /\ black_bitmap = occupied \ white
    /\ role \in Roles
    /\ depth \in TieDepths
    /\ transposition_table = <<>>
    /\ pc = "search_input"
    /\ query = <<>> /\ out = <<>>
    /\ GameVarsIdle

SpecTie == InitTie /\ [][NextSearch]_vars

\* The top-level evaluation of root move m: the minimax value of its child at
\* the remaining depth.
TopLevelValue(m) ==
    plain_minimax(Child(m, white_bitmap, black_bitmap, role)[1],
                  Child(m, white_bitmap, black_bitmap, role)[2],
                  depth - 1, Opponent(role))

\* The root moves whose top-level evaluation is the best one.
TiedMoves ==
    {m \in Range(generate_legal_moves_for_role(role, white_bitmap, black_bitmap)) :
        TopLevelValue(m) = plain_root(role, white_bitmap, black_bitmap, depth).score}

\* The moves a search of the position can return: the moves m for which the
\* step RunSearch with out'.move = m is enabled (the result of the search is
\* computed once, outside ENABLED).
PossibleMoves(candidates) ==
    {m \in candidates :
        \E res \in {iterative_search(role, white_bitmap, black_bitmap, depth,
                                      <<>>, 0, Never)} :
           ENABLED (pc = "search_input" /\ RunSearchWith(res) /\ out'.move = m)}

\* C24: when two or more root moves have the best top-level evaluation, the
\* search of the position can return more than one of them.
C24_TieBreakRandomized ==
    (pc = "search_input" /\ Cardinality(TiedMoves) >= 2) =>
       Cardinality(PossibleMoves(TiedMoves)) >= 2

\* A position with several tied root moves has been searched; the move
\* returned is the one tied move a search of it can return, the first in
\* generation order.
C24_Diverges ==
    /\ pc = "search_done"
    /\ Cardinality(TiedMoves) >= 2
    /\ out.move \in TiedMoves
    /\ out.move = plain_root(role, white_bitmap, black_bitmap, depth).move

\* The search is a function of position, role, depth and table: exactly one
\* move can be returned.
SearchIsDeterministic ==
    pc = "search_input" =>
       Cardinality(PossibleMoves(
          Range(generate_legal_moves_for_role(role, white_bitmap, black_bitmap))
             \cup {Exit})) = 1


----------------------------------------------------------------------------
(* The Monte Carlo tree search engine: SpecMcts                            *)

\* Bound of the model: the iterations that fit into the wall-clock budget.
MaxIterations == 3

\* A SearchNode of the arena: the index of its parent (0 for the root), the
\* move that leads to it, its position snapshot and the side to move, the
\* indices of its children, its visit count and its accumulated reward.
SearchNode(parent, move, white, black, to_move) ==
    [parent |-> parent, move |-> move, white |-> white, black |-> black,
     to_move |-> to_move, children |-> <<>>, expanded |-> FALSE,
     visits |-> 0, reward |-> 0]

MctsSetups ==
    { << <<"W", "a", "2">>, <<"B", "b", "3">> >>,
      << <<"W", "a", "3">>, <<"B", "a", "4">>, <<"B", "c", "7">> >>,
      << <<"W", "b", "7">>, <<"W", "h", "2">>, <<"B", "c", "8">>, <<"B", "g", "4">> >> }

InitMcts ==
    /\ \E setup \in MctsSetups : \E r \in Roles :
          LET boards == initialize_boards(setup)
          IN  /\ white_bitmap = boards[1] /\ black_bitmap = boards[2]
              /\ role = r
              /\ mcts = [nodes |-> <<SearchNode(0, None, boards[1], boards[2], r)>>,
                         iterations |-> 0, picked |-> 0, result |-> None]
    /\ transposition_table = <<>> /\ depth = 0
    /\ pc = "mcts_run"
    /\ query = <<>> /\ out = <<>>
    /\ move_count = 0 /\ moves = <<>> /\ best_move = None /\ best_score = 0
    /\ deadline = Never /\ checks = 0 /\ ret = None /\ time_left = TRUE
    /\ hist = Idle /\ ponder = NoThread /\ net = NoNet /\ gui = NoGui

\* A node whose position has a winner.
IsTerminal(node) == client_check_win_conditions(node.white, node.black) # "None"

\* select: the walk from the root through expanded nodes ends in a node
\* without children; which one UCB1 reaches is left open.
Leaves(nodes) == {i \in 1..Len(nodes) : nodes[i].children = <<>>}

\* expand: all legal children of the selected leaf are generated and
\* materialized at the end of the arena, unless the leaf is terminal.
expand_with(nodes, i, mvs) ==
    [nodes EXCEPT ![i].expanded = TRUE,
                  ![i].children = [j \in 1..Len(mvs) |-> Len(nodes) + j]]
       \o [j \in 1..Len(mvs) |->
              SearchNode(i, mvs[j],
                         Child(mvs[j], nodes[i].white, nodes[i].black, nodes[i].to_move)[1],
                         Child(mvs[j], nodes[i].white, nodes[i].black, nodes[i].to_move)[2],
                         Opponent(nodes[i].to_move))]

expand(nodes, i) ==
    IF nodes[i].expanded \/ IsTerminal(nodes[i]) THEN nodes
    ELSE expand_with(nodes, i,
            generate_legal_moves_for_role(nodes[i].to_move, nodes[i].white,
                                          nodes[i].black))

\* simulate: the rewards a rollout from the node can return, from the root's
\* perspective: +1 for a win, -1 for a loss, 0 for no decision.
Rewards(node, root_role) ==
    IF client_check_win_conditions(node.white, node.black) = "None" THEN {-1, 0, 1}
    ELSE IF client_check_win_conditions(node.white, node.black)
               = (IF root_role = "White" THEN "White wins" ELSE "Black wins")
    THEN {1}
    ELSE {-1}

\* A variant of backpropagate that stops below the root.
RECURSIVE backpropagate_below_root(_, _, _)
backpropagate_below_root(nodes, i, reward) ==
    IF i = 0 \/ nodes[i].parent = 0 THEN nodes
    ELSE backpropagate_below_root(
            [nodes EXCEPT ![i].visits = @ + 1, ![i].reward = @ + reward],
            nodes[i].parent, reward)

\* backpropagate: the reward goes up the parent chain; the visit count and the
\* accumulated reward of every node on it are incremented.
RECURSIVE backpropagate(_, _, _)
backpropagate(nodes, i, reward) ==
    IF i = 0 THEN nodes
    ELSE backpropagate([nodes EXCEPT ![i].visits = @ + 1, ![i].reward = @ + reward],
                       nodes[i].parent, reward)

\* A variant of most_visited that compares the accumulated rewards.
RECURSIVE most_rewarded(_, _, _, _)
most_rewarded(nodes, children, j, best) ==
    IF j > Len(children) THEN best
    ELSE most_rewarded(nodes, children, j + 1,
            IF best = 0 \/ nodes[children[j]].reward > nodes[best].reward
            THEN children[j] ELSE best)

\* The child with the highest visit count among children[j..], best being
\* the best of the earlier ones (0: none).
RECURSIVE most_visited(_, _, _, _)
most_visited(nodes, children, j, best) ==
    IF j > Len(children) THEN best
    ELSE most_visited(nodes, children, j + 1,
            IF best = 0 \/ nodes[children[j]].visits > nodes[best].visits
            THEN children[j] ELSE best)

MctsFrame == UNCHANGED <<role, white_bitmap, black_bitmap, transposition_table,
                         move_count, ret, time_left, hist, SearchVars, PureVars,
                         ponder, net, gui>>

\* One iteration inside the budget: select, expand, simulate, backpropagate.
MctsIterate ==
    /\ pc = "mcts_run" /\ mcts.iterations < MaxIterations
    /\ \E leaf \in Leaves(mcts.nodes) :
       \E reward \in Rewards(mcts.nodes[leaf], role) :
          mcts' = [mcts EXCEPT
                     !.nodes = backpropagate(expand(mcts.nodes, leaf), leaf, reward),
                     !.iterations = @ + 1,
                     !.picked = leaf]
    /\ pc' = pc
    /\ MctsFrame

\* The budget has expired: the move of the root child with the highest visit
\* count is the result (None when the root has no child).
MctsFinish ==
    /\ pc = "mcts_run" /\ mcts.iterations >= 1
    /\ mcts' = [mcts EXCEPT !.result =
                  IF most_visited(mcts.nodes, mcts.nodes[1].children, 1, 0) = 0 THEN None
                  ELSE mcts.nodes[most_visited(mcts.nodes, mcts.nodes[1].children,
                                               1, 0)].move]
    /\ pc' = "mcts_done"
    /\ MctsFrame

NextMcts == MctsIterate \/ MctsFinish

SpecMcts == InitMcts /\ [][NextMcts]_vars

\* The nodes on the parent chain of node i, i included: the closure of {i}
\* under the parent reference.
RECURSIVE ParentClosure(_, _, _)
ParentClosure(nodes, S, k) ==
    IF k = 0 THEN S
    ELSE ParentClosure(nodes, S \cup ({nodes[n].parent : n \in S} \ {0}), k - 1)

OnPathToRoot(nodes, i) == ParentClosure(nodes, {i}, Len(nodes))

RootChildren == mcts.nodes[1].children

\* C25: every iteration increments by exactly one the visit count of every
\* node on the path from the expanded node to the root, and of no other node;
\* after the budget has expired the result is the move of a root child whose
\* visit count no other root child exceeds.
C25_MostVisitedAfterBackpropagation ==
    /\ [][mcts'.iterations = mcts.iterations + 1 =>
            \A n \in 1..Len(mcts'.nodes) :
               mcts'.nodes[n].visits =
                  (IF n <= Len(mcts.nodes) THEN mcts.nodes[n].visits ELSE 0)
                  + (IF n \in OnPathToRoot(mcts'.nodes, mcts'.picked) THEN 1 ELSE 0)]_vars
    /\ []((pc = "mcts_done" /\ RootChildren # <<>>) =>
            \E j \in 1..Len(RootChildren) :
               /\ mcts.result = mcts.nodes[RootChildren[j]].move
               /\ \A k \in 1..Len(RootChildren) :
                     mcts.nodes[RootChildren[k]].visits
                        <= mcts.nodes[RootChildren[j]].visits)

\* The budget has expired after three iterations, the last two through the
\* same root child: the root has three visits, that child two, a sibling
\* none, and the child's move is the result.
C25_Witness ==
    /\ pc = "mcts_done" /\ mcts.iterations = 3
    /\ mcts.nodes[1].visits = 3
    /\ \E j \in 1..Len(RootChildren) : \E k \in 1..Len(RootChildren) :
          /\ mcts.nodes[RootChildren[j]].visits = 2
          /\ mcts.nodes[RootChildren[k]].visits = 0
          /\ mcts.result = mcts.nodes[RootChildren[j]].move


----------------------------------------------------------------------------
(* The terminal checks of the game loop, checked under Spec                *)

\* A move is applied to the live board.
MoveApplied == white_bitmap' # white_bitmap \/ black_bitmap' # black_bitmap

\* C26: once a move has been applied to the live board, the next move is
\* applied only to a position for which the three terminal checks (a promoted
\* pawn, a side without pawns, a side without a legal move) have found no
\* winner.
C26_TerminalChecksEveryPly ==
    [][(move_count > 0 /\ MoveApplied) =>
          client_check_win_conditions(white_bitmap, black_bitmap) = "None"]_vars

\* The agent, White, has promoted a pawn at its first move; the loop went on,
\* the opponent's next move was applied to the board with the promoted pawn,
\* and only then the loop ended.
C26_Diverges ==
    /\ pc = "closed" /\ role = "White" /\ move_count = 1
    /\ WhitePromoted
    /\ hist.white0 # white_bitmap
    /\ black_bitmap # hist.black0
    /\ Cardinality(black_bitmap) = Cardinality(hist.black0)

\* The one check main() makes: after the opponent's move, for a promoted pawn
\* (check_win_conditions of agent.py); the loop ends when it finds one.
PromotionCheckedAfterOpponentMove ==
    [][(pc = "turn" /\ ~is_my_turn /\ MoveApplied
          /\ check_win_conditions(white_bitmap', black_bitmap') # "None")
       => pc' = "closed"]_vars


----------------------------------------------------------------------------
(* The transposition table, checked under SpecSearch                       *)

\* The position and the role a key of the table stands for.
KeyRole(key) == key[1]
KeyWhite(key) == {cell \in Cells : key[2 * (8 * cell[1] + cell[2]) + 2] = "1"}
KeyBlack(key) == {cell \in Cells : key[2 * (8 * cell[1] + cell[2]) + 3] = "1"}

\* The score expanding the node of the key to depth d returns.
ExpandedScore(key, d) == plain_minimax(KeyWhite(key), KeyBlack(key), d, KeyRole(key))

\* C27: the score of every entry of the table is the score the expansion of
\* its node returns at every depth for which the entry is a hit (every
\* requested depth from 1 to the stored depth).
C27_TableHitsExact ==
    pc = "search_done" =>
       \A key \in DOMAIN transposition_table :
          \A d \in 1..transposition_table[key].depth :
             transposition_table[key].score = ExpandedScore(key, d)

\* A search has left an entry whose score is not the score of the expansion of
\* its node at the stored depth itself.
C27_Diverges ==
    /\ pc = "search_done"
    /\ \E key \in DOMAIN transposition_table :
          transposition_table[key].score
             # ExpandedScore(key, transposition_table[key].depth)

\* The keys are read back correctly: the entry of the root, when the search
\* has stored one, is the entry of the position searched.
RootKeyReadBack ==
    pc = "search_done" =>
       \A key \in DOMAIN transposition_table :
          key = hash_position(KeyWhite(key), KeyBlack(key), KeyRole(key))

----------------------------------------------------------------------------
(* The value of a node of the search: SpecNode                             *)

\* The remaining depths at which a node of the search is scored.
NodeDepths == 0..1

\* A node of the search: a position of the family of InitLegal, the role to
\* move and the remaining depth, as _alpha_beta receives them.
InitNode ==
    /\ \E occupied \in CellSets(MaxPawns) : \E white \in SUBSET occupied :
          white_bitmap = white /\ black_bitmap = occupied \ white
    /\ role \in Roles
    /\ depth \in NodeDepths
    /\ transposition_table = <<>>
    /\ pc = "node_input"
    /\ query = <<>> /\ out = <<>>
    /\ GameVarsIdle

\* self._alpha_beta(white_bitmap, black_bitmap, depth, -inf, inf, role) with
\* an empty table and no time check observing an overrun.
ScoreNode ==
    /\ pc = "node_input"
    /\ out' = [score |-> alpha_beta(white_bitmap, black_bitmap, depth, NegInf, PosInf,
                                    role, <<>>, 0, Never).score]
    /\ pc' = "node_done"
    /\ UNCHANGED <<role, white_bitmap, black_bitmap, transposition_table, depth,
                   query, GameVars>>

NextNode == ScoreNode

SpecNode == InitNode /\ [][NextNode]_vars

\* A pawn of the side stands on its promotion row.
Promoted(white, black, side) ==
    IF side = "White" THEN \E c \in Cols : <<0, c>> \in white
    ELSE \E c \in Cols : <<7, c>> \in black

\* The values _alpha_beta returns for the positions of the family in which
\* no pawn of either side stands on its promotion row.
UnpromotedScores ==
    UNION {{alpha_beta(occupied \ black, black, d, NegInf, PosInf, r, <<>>, 0, Never).score :
               black \in {b \in SUBSET occupied :
                             /\ ~Promoted(occupied \ b, b, "White")
                             /\ ~Promoted(occupied \ b, b, "Black")},
               d \in NodeDepths, r \in Roles} :
           occupied \in CellSets(MaxPawns)}

\* C28: a node at which a pawn stands on its promotion row is scored strictly
\* more favourably to the promoting side (higher for White, lower for Black)
\* than every position without a promoted pawn.
C28_PromotionScoredAsWin ==
    pc = "node_done" =>
       /\ Promoted(white_bitmap, black_bitmap, "White") /\ ~Promoted(white_bitmap, black_bitmap, "Black")
             => \A s \in UnpromotedScores : out.score > s
       /\ Promoted(white_bitmap, black_bitmap, "Black") /\ ~Promoted(white_bitmap, black_bitmap, "White")
             => \A s \in UnpromotedScores : out.score < s

\* A White pawn on row 0 facing a Black pawn: the node is scored below a
\* position of one White and one Black pawn in which nobody has promoted.
C28_Diverges ==
    /\ pc = "node_done"
    /\ Promoted(white_bitmap, black_bitmap, "White")
    /\ black_bitmap # {} /\ ~Promoted(white_bitmap, black_bitmap, "Black")
    /\ \E w \in Rows \X PawnFiles, b \in Rows \X PawnFiles :
          /\ w # b /\ w[1] # 0 /\ b[1] # 7
          /\ out.score < evaluate_position({w}, {b})

\* What the code returns at such a node: the static evaluation, material and
\* advancement of both sides, whatever the remaining depth.
PromotedNodeIsStaticEvaluation ==
    pc = "node_done" /\ check_win_conditions(white_bitmap, black_bitmap) # "None"
       => out.score = evaluate_position(white_bitmap, black_bitmap)

----------------------------------------------------------------------------
(* The terms of evaluate_board_dynamic, under SpecEval                     *)

\* A pawn of side on cell is passed: no opposing pawn on its own or an
\* adjacent file on a rank strictly ahead of it (higher rows for Black, lower
\* rows for White).
PassedPawn(cell, opp, side) ==
    \A o \in opp :
       ~ /\ o[2] - cell[2] \in {-1, 0, 1}
         /\ IF side = "Black" THEN o[1] > cell[1] ELSE o[1] < cell[1]

\* The term of one Black pawn: advancement, the promotion bonus on row 6 and
\* the passed-pawn bonus.
BlackPawnTerm(cell, white) ==
    weights.advancement * cell[1]
    + (IF cell[1] = 6 THEN weights.promotion_bonus ELSE 0)
    + (IF PassedPawn(cell, white, "Black") THEN weights.passed_pawn ELSE 0)

\* The term of one White pawn: advancement and the passed-pawn bonus.
WhitePawnTerm(cell, black) ==
    weights.white_advancement * (7 - cell[1])
    + (IF PassedPawn(cell, black, "White") THEN weights.white_passed_pawn ELSE 0)

RECURSIVE BlackPawnTerms(_, _)
BlackPawnTerms(pawns, white) ==
    IF pawns = {} THEN 0
    ELSE LET x == CHOOSE y \in pawns : TRUE
         IN  BlackPawnTerm(x, white) + BlackPawnTerms(pawns \ {x}, white)

RECURSIVE WhitePawnTerms(_, _)
WhitePawnTerms(pawns, black) ==
    IF pawns = {} THEN 0
    ELSE LET x == CHOOSE y \in pawns : TRUE
         IN  WhitePawnTerm(x, black) + WhitePawnTerms(pawns \ {x}, black)

\* Material balance plus the terms of the Black pawns minus those of the
\* White pawns.
SumOfTerms(white, black) ==
    weights.material * (Cardinality(black) - Cardinality(white))
    + BlackPawnTerms(black, white) - WhitePawnTerms(white, black)

\* The advancement of the passed pawns, Black minus White.
RECURSIVE PassedAdvancement(_, _, _)
PassedAdvancement(pawns, white, black) ==
    IF pawns = {} THEN 0
    ELSE LET x == CHOOSE y \in pawns : TRUE
             rest == PassedAdvancement(pawns \ {x}, white, black)
         IN  IF x \in black /\ PassedPawn(x, white, "Black")
             THEN weights.advancement * x[1] + rest
             ELSE IF x \in white /\ x \notin black /\ PassedPawn(x, black, "White")
             THEN rest - weights.white_advancement * (7 - x[1])
             ELSE rest

\* C29: on a position without a winner the Black-perspective value of
\* evaluate_board_dynamic is the material balance plus, per Black pawn,
\* advancement, promotion bonus on row 6 and passed-pawn bonus, minus, per
\* White pawn, advancement and passed-pawn bonus.
C29_ValueIsSumOfTerms ==
    pc = "eval_done" /\ check_win_conditions(white_bitmap, black_bitmap) = "None"
       => out.black = SumOfTerms(white_bitmap, black_bitmap)

\* A position without a winner with a passed pawn that has left the row
\* farthest from its promotion row: the value differs from the sum.
C29_Diverges ==
    /\ pc = "eval_done"
    /\ check_win_conditions(white_bitmap, black_bitmap) = "None"
    /\ \/ \E p \in black_bitmap : p[1] > 0 /\ PassedPawn(p, white_bitmap, "Black")
       \/ \E p \in white_bitmap : p[1] < 7 /\ PassedPawn(p, black_bitmap, "White")
    /\ out.black # SumOfTerms(white_bitmap, black_bitmap)

\* What the code computes: the sum, with the advancement of every passed pawn
\* counted a second time.
PassedAdvancementCountedTwice ==
    pc = "eval_done" /\ check_win_conditions(white_bitmap, black_bitmap) = "None"
       => out.black = SumOfTerms(white_bitmap, black_bitmap)
                      + PassedAdvancement(white_bitmap \cup black_bitmap,
                                          white_bitmap, black_bitmap)

\* The scan of is_passed_pawn decides the passed pawns of the sum.
PassedScanAgrees ==
    pc = "eval_done" =>
       /\ \A p \in black_bitmap :
             is_passed_pawn(black_bitmap, white_bitmap, p[1], p[2], "Black")
                <=> PassedPawn(p, white_bitmap, "Black")
       /\ \A p \in white_bitmap :
             is_passed_pawn(white_bitmap, black_bitmap, p[1], p[2], "White")
                <=> PassedPawn(p, black_bitmap, "White")

----------------------------------------------------------------------------
(* The order of the generated moves, under SpecLegal                       *)

\* The place of a move in the stated order: source square row-major, then
\* forward one (0), forward two (1), capture towards the lower file (2),
\* capture towards the higher file (3).
MoveOrderKey(m) ==
    LET src == convert_coord(SubSeq(m, 1, 2))
        dst == convert_coord(SubSeq(m, 3, 4))
        kind == IF dst[2] < src[2] THEN 2
                ELSE IF dst[2] > src[2] THEN 3
                ELSE IF dst[1] - src[1] \in {-1, 1} THEN 0
                ELSE 1
    IN  4 * (8 * src[1] + src[2]) + kind

\* The list is in the stated order, without repetition.
InMoveOrder(list) ==
    \A i, j \in 1..Len(list) : i < j => MoveOrderKey(list[i]) < MoveOrderKey(list[j])

RowBeforeColumnWitness ==
    /\ pc = "gen_done"
    /\ \E p, q \in Own :
          /\ p[1] < q[1] /\ p[2] > q[2]
          /\ Len(out.agent) >= 2
          /\ convert_coord(SubSeq(out.agent[1], 1, 2)) = p
          /\ convert_coord(SubSeq(out.agent[Len(out.agent)], 1, 2)) = q

----------------------------------------------------------------------------
(* Alternating legal moves on the boards: SpecPlay                         *)

\* The moves a player may send in the position: those its generator lists,
\* of agent.py or of client.py / random_agent.py.
LegalMoves(r, own, opp) ==
    Range(generate_all_legal_moves(r, own, opp))
       \cup Range(client_generate_all_legal_moves(r, own, opp))

\* A position of the family of InitLegal with either role to move.
InitPlay ==
    /\ \E occupied \in CellSets(MaxPawns) : \E white \in SUBSET occupied :
          white_bitmap = white /\ black_bitmap = occupied \ white
    /\ role \in Roles
    /\ transposition_table = <<>> /\ depth = 0
    /\ pc = "play_input"
    /\ query = <<>> /\ out = <<>>
    /\ GameVarsIdle

\* The player to move sends move, one of its legal moves (NextPlay), and
\* execute_move(move, own_bitmap, opp_bitmap) is called with the mover's
\* bitmap as own_bitmap; the turn passes to the other role.  query keeps the
\* move.
PlayMove(move) ==
    /\ pc \in {"play_input", "playing"}
    /\ white_bitmap' = Child(move, white_bitmap, black_bitmap, role)[1]
    /\ black_bitmap' = Child(move, white_bitmap, black_bitmap, role)[2]
    /\ role' = Opponent(role)
    /\ query' = move
    /\ pc' = "playing"
    /\ UNCHANGED <<transposition_table, depth, out, GameVars>>

NextPlay == \E move \in LegalMoves(role, Own, Opp) : PlayMove(move)

SpecPlay == InitPlay /\ [][NextPlay]_vars

\* The source and destination cells the move names.
MoveSource(move) == convert_coord(SubSeq(move, 1, 2))
MoveTarget(move) == convert_coord(SubSeq(move, 3, 4))

\* The bitmaps of the role that has just moved, and of the other role, after
\* the step.
MoverAfter == IF role = "White" THEN white_bitmap' ELSE black_bitmap'
OtherAfter == IF role = "White" THEN black_bitmap' ELSE white_bitmap'

\* C31: execute_move of a legal move changes exactly the source and the
\* destination cell: the mover's bitmap loses the source and gains the
\* destination, the opponent's bitmap loses the destination iff it held a
\* pawn, every other cell of both bitmaps is unchanged; the mover's pawn
\* count is unchanged and the opponent's drops by one exactly on a capture.
C31_MoveChangesTwoCells ==
    [][LET src == MoveSource(query')
           dst == MoveTarget(query')
       IN  /\ src \in Own /\ src \notin MoverAfter
           /\ dst \in MoverAfter /\ dst \notin OtherAfter
           /\ \A cell \in Cells \ {src, dst} :
                 /\ cell \in MoverAfter <=> cell \in Own
                 /\ cell \in OtherAfter <=> cell \in Opp
           /\ src \in OtherAfter <=> src \in Opp
           /\ Cardinality(MoverAfter) = Cardinality(Own)
           /\ Cardinality(OtherAfter)
                 = Cardinality(Opp) - (IF dst \in Opp THEN 1 ELSE 0)]_vars

\* A capture has been played: the opponent of the mover has one pawn, the
\* one the move took stood on the destination.
C31_Witness ==
    /\ pc = "playing"
    /\ MoveSource(query)[2] # MoveTarget(query)[2]
    /\ MoveTarget(query) \in (IF role = "White" THEN black_bitmap ELSE white_bitmap)
    /\ Cardinality(white_bitmap \cup black_bitmap) = 1

----------------------------------------------------------------------------
(* The handshake of server.py with two players: SpecHandshake              *)

\* Lines, as sequences of strings: the first element is what startswith looks
\* at.  A board-setup line names its setup.
ConnectedMsg == <<"Connected to the server!">>
OkMsg == <<"OK">>
SetupAckMsg == <<"SETUP-ACK">>
TimeMsg == <<"30">>
BeginMsg == <<"BEGIN">>
RoleMsg(r) == <<"Role", r>>
SetupMsg(name) == <<"Setup", name>>

\* line.startswith(prefix), on a line that may be "" (<<>>).
StartsWith(line, prefix) == Len(line) >= 1 /\ line[1] = prefix

\* server.py: board_setup at start, and the setup a player is started with.
DefaultSetupMsg == SetupMsg("default")
CustomSetupMsg == SetupMsg("custom")

\* The programs a player runs.
PlayerKinds == {"agent", "random_agent", "client"}

\* The setups the lines name, as the tokens after "Setup": the default, the
\* custom setup of a player, and two short games the GUI sets with
\* update_setup (a promotion on the first move, a race of three moves).
SetupTokens(name) ==
    IF name = "default" THEN default_setup
    ELSE IF name = "promote" THEN << <<"W", "a", "7">>, <<"B", "h", "3">> >>
    ELSE IF name = "race" THEN << <<"W", "a", "6">>, <<"B", "h", "4">> >>
    ELSE << <<"W", "a", "7">>, <<"B", "h", "2">> >>

\* client.py initialize_boards: as that of agent.py and random_agent.py, but
\* the colour character is not upper-cased.
RECURSIVE client_initialize_boards(_)
client_initialize_boards(tokens) ==
    IF tokens = <<>> THEN <<{}, {}>>
    ELSE LET rest == client_initialize_boards(Tail(tokens))
             token == Head(tokens)
         IN  IF Len(token) < 3 THEN rest
             ELSE LET color == token[1]
                      rc == convert_coord(SubSeq(token, 2, Len(token)))
                      cell == <<Wrap(rc[1]), Wrap(rc[2])>>
                  IN  IF color = "W" THEN <<rest[1] \cup {cell}, rest[2]>>
                      ELSE IF color = "B" THEN <<rest[1], rest[2] \cup {cell}>>
                      ELSE rest

\* The names of the setups.
SetupNames == {"default", "custom", "promote", "race"}

\* initialize_boards of agent.py and random_agent.py, and of client.py, on
\* the setups.
AgentBoards == [name \in SetupNames |-> initialize_boards(SetupTokens(name))]
ClientBoards == [name \in SetupNames |-> client_initialize_boards(SetupTokens(name))]

\* initialize_boards(msg) of the player's program on a board-setup line.
ParseSetup(kind, line) ==
    IF kind = "client" THEN ClientBoards[line[2]] ELSE AgentBoards[line[2]]

\* A player before it connects: its program (kind), the custom setup it was
\* started with (custom, None without one), its position in the code (at), the
\* lines the server has sent it and it has not read (inbox), the acknowledgment
\* and the board-setup line it has read, its role, its bitmaps, and the lines
\* it has sent in its game loop (sent).
NewPlayer(kind, custom) ==
    [kind |-> kind, custom |-> custom, at |-> "start", inbox |-> <<>>,
     ack |-> None, setup |-> None, role |-> "None", white |-> {}, black |-> {},
     sent |-> <<>>]

\* server.py before a game connection: its position in start_server (at),
\* board_setup, first_msg, and per game connection the lines that have arrived
\* at the socket (sock) and those the file object s_file has read ahead (file);
\* win_msg; the lines the spectator has sent (spectator) and the number of
\* REPLAY commands it has sent (replays); per connection the lines sent to it
\* in the game loop with the connection they were read from (delivered, 0 for
\* the server's own) and the lines of the player's game loop read (read).
NewServer ==
    [at |-> "accept1", board_setup |-> DefaultSetupMsg, first_msg |-> <<>>,
     sock |-> << <<>>, <<>> >>, file |-> << <<>>, <<>> >>,
     win_msg |-> <<>>, spectator |-> <<>>, replays |-> 0,
     delivered |-> << <<>>, <<>> >>, read |-> << <<>>, <<>> >>]

InitHandshake ==
    /\ \E kind1 \in {"agent", "random_agent"}, kind2 \in PlayerKinds :
       \E custom1 \in {None, CustomSetupMsg} :
       \E custom2 \in IF kind2 = "client" THEN {None} ELSE {None, CustomSetupMsg} :
          net = [server |-> NewServer,
                 players |-> <<NewPlayer(kind1, custom1), NewPlayer(kind2, custom2)>>]
    /\ white_bitmap = {} /\ black_bitmap = {}
    /\ role = "White"
    /\ transposition_table = <<>> /\ depth = 0
    /\ pc = "handshake"
    /\ query = <<>> /\ out = <<>>
    /\ move_count = 0 /\ moves = <<>> /\ best_move = None /\ best_score = 0
    /\ deadline = Never /\ checks = 0 /\ ret = None /\ time_left = TRUE
    /\ hist = Idle /\ ponder = NoThread /\ mcts = NoSession /\ gui = NoGui

NetFrame == UNCHANGED <<role, white_bitmap, black_bitmap, transposition_table, pc,
                        move_count, ret, time_left, hist, SearchVars, PureVars,
                        ponder, mcts, gui>>

\* The process of the player has ended: its socket is closed.
Closed(player) == player.at \in {"exited", "raised"}

\* send_msg of a player: the line arrives at the socket of its connection.
PlayerSends(n, c, line) == [n EXCEPT !.server.sock[c] = Append(@, line)]

\* send_msg(conn, msg, stats) of the server.  Nothing is kept of a line for a
\* player whose program has ended, and a run of empty lines is kept as one
\* (every program ends at the first empty line it reads in its game loop).
ServerSends(n, c, line) ==
    IF Closed(n.players[c]) THEN n
    ELSE IF line = <<>> /\ n.players[c].inbox # <<>>
            /\ n.players[c].inbox[Len(n.players[c].inbox)] = <<>>
    THEN n
    ELSE [n EXCEPT !.players[c].inbox = Append(@, line)]
ServerSendsBoth(n, line) == ServerSends(ServerSends(n, 1, line), 2, line)

\* s_file.readline() of the server can return: a line is in the file object
\* or at the socket, or the peer has closed (the line is then "").
ServerCanRead(n, c) ==
    n.server.file[c] # <<>> \/ n.server.sock[c] # <<>> \/ Closed(n.players[c])

\* The line readline returns: the file object reads everything that has
\* arrived at the socket and hands out the first line.
ServerLine(n, c) ==
    IF n.server.file[c] # <<>> THEN Head(n.server.file[c])
    ELSE IF n.server.sock[c] # <<>> THEN Head(n.server.sock[c])
    ELSE <<>>

\* The connection after that readline.
ServerRead(n, c) ==
    IF n.server.file[c] # <<>> THEN [n EXCEPT !.server.file[c] = Tail(@)]
    ELSE IF n.server.sock[c] # <<>>
    THEN [n EXCEPT !.server.file[c] = Tail(n.server.sock[c]), !.server.sock[c] = <<>>]
    ELSE n

\* The connection after a recv_msg of the handshake; a line the player has
\* sent in its game loop (read in the handshake of a new game) is kept in
\* read.
ServerReadOk(n, c) ==
    IF ServerLine(n, c) # <<>> /\ Len(n.players[c].sent) > Len(n.server.read[c])
    THEN [ServerRead(n, c) EXCEPT !.server.read[c] = Append(@, ServerLine(n, c))]
    ELSE ServerRead(n, c)

\* sock.connect of player c; the second connection is the one made second.
Connect(c) ==
    /\ net.players[c].at = "start"
    /\ c = 2 => net.players[1].at # "start"
    /\ net' = [net EXCEPT !.players[c].at = "hello"]
    /\ NetFrame

\* game_sock.accept() for connection 1.
Accept1 ==
    /\ net.server.at = "accept1"
    /\ net.players[1].at # "start"
    /\ net' = [net EXCEPT !.server.at = "select1"]
    /\ NetFrame

\* select.select([conn1], [], [], 0.5) and what follows: a line that has
\* arrived is read as first_msg, and a custom setup is adopted and
\* acknowledged; after the timeout first_msg is "".
Select1 ==
    /\ net.server.at = "select1"
    /\ LET ready == net.server.sock[1] # <<>>
           first_msg == IF ready THEN ServerLine(net, 1) ELSE <<>>
           n1 == IF ready THEN ServerRead(net, 1) ELSE net
           n2 == [n1 EXCEPT !.server.first_msg = first_msg, !.server.at = "accept2"]
       IN  net' = IF StartsWith(first_msg, "Setup")
                  THEN ServerSends([n2 EXCEPT !.server.board_setup = first_msg],
                                   1, SetupAckMsg)
                  ELSE n2
    /\ NetFrame

\* game_sock.accept() for connection 2 and the two "Connected" lines.
Accept2 ==
    /\ net.server.at = "accept2"
    /\ net.players[2].at # "start"
    /\ net' = ServerSendsBoth([net EXCEPT !.server.at = "hello1"], ConnectedMsg)
    /\ NetFrame

\* The lines the server sends after the second recv_msg of a round.
AfterRound(at, board_setup) ==
    IF at = "hello2" THEN <<board_setup>>
    ELSE IF at = "setup2" THEN <<TimeMsg>>
    ELSE <<BeginMsg>>

NextRound(at) ==
    IF at = "hello1" THEN "hello2" ELSE IF at = "hello2" THEN "setup1"
    ELSE IF at = "setup1" THEN "setup2" ELSE IF at = "setup2" THEN "time1"
    ELSE IF at = "time1" THEN "time2" ELSE "game"

\* recv_msg(s_file1, stats) of a round of the handshake: whatever line is
\* read counts as the "OK".
RecvOk1 ==
    /\ net.server.at \in {"hello1", "setup1", "time1"}
    /\ ServerCanRead(net, 1)
    /\ net' = [ServerReadOk(net, 1) EXCEPT !.server.at = NextRound(net.server.at)]
    /\ NetFrame

\* recv_msg(s_file2, stats) of a round and the send_msg calls up to the next
\* recv_msg: the board setup, the time, or BEGIN and the two roles
\* (starting_side is "White": connection 1 plays White).
RecvOk2 ==
    /\ net.server.at \in {"hello2", "setup2", "time2"}
    /\ ServerCanRead(net, 2)
    /\ LET n1 == [ServerReadOk(net, 2) EXCEPT !.server.at = NextRound(net.server.at)]
           n2 == ServerSendsBoth(n1, AfterRound(net.server.at, net.server.board_setup)[1])
       IN  net' = IF net.server.at = "time2"
                  THEN ServerSends(ServerSends(n2, 1, RoleMsg("White")), 2, RoleMsg("Black"))
                  ELSE n2
    /\ NetFrame

\* A player reads the line it is waiting for in the handshake and does what
\* follows up to its next readline: after "Connected" it sends its custom
\* setup or "OK"; it reads the acknowledgment; a board setup is parsed and
\* answered "OK", any other line ends the program; the time is answered "OK";
\* BEGIN is read; the role line assigns the role (agent.py keeps its default
\* role "White" on any other line, the others end).
PlayerReads(c) ==
    LET p == net.players[c]
        line == Head(p.inbox)
        n == [net EXCEPT !.players[c].inbox = Tail(@)]
    IN  /\ p.at \in {"hello", "ack", "setup", "time", "begin", "role"}
        /\ p.inbox # <<>>
        /\ net' =
             IF p.at = "hello"
             THEN IF StartsWith(p.custom, "Setup")
                  THEN PlayerSends([n EXCEPT !.players[c].at = "ack"], c, p.custom)
                  ELSE PlayerSends([n EXCEPT !.players[c].at = "setup"], c, OkMsg)
             ELSE IF p.at = "ack"
             THEN [n EXCEPT !.players[c].at = "setup", !.players[c].ack = line]
             ELSE IF p.at = "setup"
             THEN IF StartsWith(line, "Setup")
                  THEN PlayerSends([n EXCEPT !.players[c].at = "time",
                                             !.players[c].setup = line,
                                             !.players[c].white = ParseSetup(p.kind, line)[1],
                                             !.players[c].black = ParseSetup(p.kind, line)[2]],
                                   c, OkMsg)
                  ELSE [n EXCEPT !.players[c].at = "exited"]
             ELSE IF p.at = "time"
             THEN PlayerSends([n EXCEPT !.players[c].at = "begin"], c, OkMsg)
             ELSE IF p.at = "begin"
             THEN [n EXCEPT !.players[c].at = "role"]
             ELSE IF StartsWith(line, "Role")
             THEN [n EXCEPT !.players[c].at = "game", !.players[c].role = line[2]]
             ELSE IF p.kind = "agent"
             THEN [n EXCEPT !.players[c].at = "game", !.players[c].role = "White"]
             ELSE [n EXCEPT !.players[c].at = "exited"]
        /\ NetFrame

NextHandshake ==
    \/ \E c \in {1, 2} : Connect(c)
    \/ Accept1
    \/ Select1
    \/ Accept2
    \/ RecvOk1
    \/ RecvOk2
    \/ \E c \in {1, 2} : PlayerReads(c)

SpecHandshake == InitHandshake /\ [][NextHandshake]_vars

\* The handshake is over for everybody.
HandshakeDone ==
    net.server.at = "game" /\ \A c \in {1, 2} : net.players[c].at = "game"

\* Every participant waits in a read for a line nobody will send.
HandshakeStuck == ~HandshakeDone /\ ~ENABLED NextHandshake

\* C32: when the first connecting player was started with a custom setup, the
\* server adopts it and acknowledges it, the board setup a player receives is
\* that setup, and the handshake never reaches a state in which the
\* participants wait for lines that nobody sends.
C32_CustomSetupHandshake ==
    StartsWith(net.players[1].custom, "Setup") =>
       /\ net.server.at \notin {"accept1", "select1"}
             => net.server.board_setup = net.players[1].custom
       /\ \A c \in {1, 2} :
             /\ net.players[c].setup # None => net.players[c].setup = net.players[1].custom
             /\ net.players[c].ack # None => net.players[c].ack = SetupAckMsg
       /\ ~HandshakeStuck

\* The first player was started with a custom setup and a plain second player
\* has joined: the server has sent its default setup, the first player has
\* taken it for the acknowledgment and waits for the board setup, the server
\* waits for the first player's "OK".
C32_Diverges ==
    /\ net.players[1].custom = CustomSetupMsg /\ net.players[2].custom = None
    /\ net.server.at = "setup1" /\ net.server.board_setup = DefaultSetupMsg
    /\ net.players[1].at = "setup" /\ net.players[1].ack = DefaultSetupMsg
    /\ net.players[2].at = "time" /\ net.players[2].setup = DefaultSetupMsg
    /\ HandshakeStuck

\* Without a custom setup the handshake is never stuck and both players
\* receive the default setup and their roles.
PlainHandshakeCompletes ==
    (net.players[1].custom = None /\ net.players[2].custom = None) =>
       /\ ~HandshakeStuck
       /\ HandshakeDone =>
             /\ \A c \in {1, 2} : net.players[c].setup = DefaultSetupMsg
             /\ net.players[1].role = "White" /\ net.players[2].role = "Black"

\* The handshake without custom setups is completed.
PlainHandshakeWitness ==
    HandshakeDone /\ net.players[1].custom = None /\ net.players[2].custom = None

\* The server never reads a line at its select for the custom setup: a player
\* sends nothing before it has read "Connected to the server!", which the
\* server sends after the second accept.
SelectAlwaysTimesOut == net.server.first_msg = <<>>

----------------------------------------------------------------------------
(* The game through the server: SpecRelay                                  *)

\* Cap on the REPLAY commands the spectator sends.
MaxReplays == 1

\* Lines of the game: f"win: {winner}" of a player ("win: " with Verdict),
\* the winner string sent without prefix by the Black loop of client.py, the
\* server's "win: Replay requested", and the spectator's command.
WinMsg(winner) == <<"win:", winner>>
ReplayWinMsg == WinMsg("Replay requested")
ReplayCmd == <<"REPLAY">>

\* line.startswith("win:").
IsWinLine(line) == StartsWith(line, "win:") \/ StartsWith(line, "win: ")

\* execute_move(line, ...) raises on a line that is not a move: IndexError in
\* convert_coord on a line shorter than four characters, ValueError from int
\* when the second character of a coordinate is not a digit.
execute_move_raises(line) ==
    Len(line) < 4 \/ ~IsDigit(line[2]) \/ ~IsDigit(line[4])

\* The game loop of a player starts with a server whose board_setup is one of
\* the short games (update_setup) and whose handshake is still to come.
InitRelay ==
    /\ \E kind1 \in PlayerKinds, kind2 \in PlayerKinds :
       \E name \in {"promote", "race"} :
          net = [server |-> [NewServer EXCEPT !.board_setup = SetupMsg(name)],
                 players |-> <<NewPlayer(kind1, None), NewPlayer(kind2, None)>>]
    /\ white_bitmap = {} /\ black_bitmap = {}
    /\ role = "White"
    /\ transposition_table = <<>> /\ depth = 0
    /\ pc = "handshake"
    /\ query = <<>> /\ out = <<>>
    /\ move_count = 0 /\ moves = <<>> /\ best_move = None /\ best_score = 0
    /\ deadline = Never /\ checks = 0 /\ ret = None /\ time_left = TRUE
    /\ hist = Idle /\ ponder = NoThread /\ mcts = NoSession /\ gui = NoGui

\* A line a player sends in its game loop.
PlayerSendsInGame(n, c, line) ==
    [PlayerSends(n, c, line) EXCEPT !.players[c].sent = Append(@, line)]

\* The bitmaps of player c after execute_move of line for the role mover.
Executed(n, c, line, mover) ==
    LET nb == Child(line, n.players[c].white, n.players[c].black, mover)
    IN  [n EXCEPT !.players[c].white = nb[1], !.players[c].black = nb[2]]

\* The legal moves of the player's own generator in its position.
OwnMoves(p) ==
    IF p.kind = "agent"
    THEN generate_legal_moves_for_role(p.role, p.white, p.black)
    ELSE IF p.role = "White"
    THEN client_generate_all_legal_moves("White", p.white, p.black)
    ELSE client_generate_all_legal_moves("Black", p.black, p.white)

\* check_win_conditions of the player's program.
OwnWinner(p) ==
    IF p.kind = "agent" THEN check_win_conditions(p.white, p.black)
    ELSE client_check_win_conditions(p.white, p.black)

\* The player enters its game loop: White moves first, Black waits.
EnterLoop(c) ==
    /\ net.players[c].at = "game"
    /\ net' = [net EXCEPT !.players[c].at =
                  IF net.players[c].role = "White" THEN "move" ELSE "recv"]
    /\ NetFrame

\* The player's turn.  random_agent.py sends "exit" without legal moves and
\* otherwise a move random.choice picks; client.py sends what the user
\* enters, a legal move or "exit"; both execute the move and go on to their
\* win check.  agent.py sends what make_move returns and waits for the
\* opponent: the verdict without legal moves, the first promoting move, or
\* the move of the search (any legal move here), executed by make_move.
PlayerMove(c, choice) ==
    LET p == net.players[c]
    IN  /\ p.at = "move"
        /\ \E mvs \in {OwnMoves(p)} :
           \E promotion \in {find_immediate_promotion(p.role, mvs)} :
           net' =
             IF p.kind = "agent"
             THEN IF mvs = <<>>
                  THEN PlayerSendsInGame([net EXCEPT !.players[c].at = "recv"], c,
                                         WinMsg(Opponent(p.role)))
                  ELSE LET m == IF promotion # None THEN promotion
                                ELSE mvs[((choice - 1) % Len(mvs)) + 1]
                       IN  PlayerSendsInGame(
                              Executed([net EXCEPT !.players[c].at = "recv"], c, m, p.role),
                              c, m)
             ELSE IF (p.kind = "random_agent" /\ mvs = <<>>)
                     \/ (p.kind = "client" /\ (choice = 0 \/ mvs = <<>>))
             THEN PlayerSendsInGame([net EXCEPT !.players[c].at = "exited"], c, Exit)
             ELSE LET m == mvs[((choice - 1) % Len(mvs)) + 1]
                  IN  PlayerSendsInGame(
                         Executed([net EXCEPT !.players[c].at = "moved"], c, m, p.role),
                         c, m)
        /\ NetFrame

\* random_agent.py and client.py after their own move: a winner is sent as
\* "win: <winner>" (by the Black loop of client.py as the bare winner string);
\* random_agent.py then leaves its loop, client.py goes on to read.
PlayerAfterMove(c) ==
    LET p == net.players[c]
    IN  /\ p.at = "moved"
        /\ \E winner \in {OwnWinner(p)} :
           net' =
             IF winner = "None" THEN [net EXCEPT !.players[c].at = "recv"]
             ELSE PlayerSendsInGame(
                     [net EXCEPT !.players[c].at =
                         IF p.kind = "random_agent" THEN "exited" ELSE "recv"],
                     c,
                     IF p.kind = "client" /\ p.role = "Black" THEN <<winner>>
                     ELSE WinMsg(winner))
        /\ NetFrame

\* readline of a player can return: a line has arrived or the server has
\* closed the connection (the line is then "").
PlayerCanRead(n, c) == n.players[c].inbox # <<>> \/ n.server.at = "closed"

\* The player reads the opponent's move.  "exit" ends the loop (for agent.py
\* also "" and "gameover"); every other line is passed to execute_move, which
\* raises on a line that is not a move.  After the move the White loops of
\* random_agent.py and client.py and the loop of agent.py check for a winner
\* and send it; random_agent.py and agent.py then leave the loop.
PlayerRecv(c) ==
    LET p == net.players[c]
        line == IF p.inbox # <<>> THEN Head(p.inbox) ELSE <<>>
        n == IF p.inbox # <<>> THEN [net EXCEPT !.players[c].inbox = Tail(@)] ELSE net
    IN  /\ p.at = "recv"
        /\ PlayerCanRead(net, c)
        /\ \E moved \in {IF execute_move_raises(line) THEN n
                         ELSE Executed([n EXCEPT !.players[c].at = "move"], c, line,
                                       Opponent(p.role))} :
           \E winner \in {OwnWinner(moved.players[c])} :
           net' =
             IF line = Exit \/ (p.kind = "agent" /\ line = <<>>)
             THEN [n EXCEPT !.players[c].at = "exited"]
             ELSE IF execute_move_raises(line)
             THEN [n EXCEPT !.players[c].at = "raised"]
             ELSE IF winner = "None" \/ (p.kind # "agent" /\ p.role = "Black")
             THEN moved
             ELSE PlayerSendsInGame(
                     [moved EXCEPT !.players[c].at =
                         IF p.kind = "client" THEN "move" ELSE "exited"],
                     c, WinMsg(winner))
        /\ NetFrame

\* select reports a game connection: a line has arrived at the socket or the
\* peer has closed.  Lines the file object has already read ahead do not
\* count.
Ready(n, c) == n.server.sock[c] # <<>> \/ Closed(n.players[c])

\* send_msg to the other connection of a line read from connection c; the
\* empty lines read from a closed connection are not kept in delivered.
ForwardLine(n, c, line) ==
    IF line = <<>> THEN ServerSends(n, 3 - c, line)
    ELSE [ServerSends(n, 3 - c, line) EXCEPT
             !.server.delivered[3 - c] = Append(@, <<c, line>>)]

\* The branch of the for loop for a ready game connection c: recv_msg, then
\* "exit" is forwarded and the server returns, a "win:" line becomes win_msg
\* and breaks the loop, any other line is forwarded.
HandleConn(n, c) ==
    LET msg == ServerLine(n, c)
        n1 == IF msg = <<>> THEN n
              ELSE [ServerRead(n, c) EXCEPT !.server.read[c] = Append(@, msg)]
    IN  IF msg = Exit THEN ForwardLine([n1 EXCEPT !.server.at = "closed"], c, msg)
        ELSE IF IsWinLine(msg) THEN [n1 EXCEPT !.server.win_msg = msg]
        ELSE ForwardLine(n1, c, msg)

\* The branch for the spectator: REPLAY ends the game with "win: Replay
\* requested".
HandleSpectator(n) ==
    LET spec_msg == Head(n.server.spectator)
        n1 == [n EXCEPT !.server.spectator = Tail(@)]
    IN  IF spec_msg = ReplayCmd THEN [n1 EXCEPT !.server.win_msg = ReplayWinMsg] ELSE n1

\* The lines that start a new game: board_setup to both players; the server
\* goes on as in the handshake after the board setup.  win_msg keeps its
\* value up to the next pass of the game loop.
StartReplay(n) ==
    ServerSendsBoth([n EXCEPT !.server.at = "setup1"], n.server.board_setup)

\* "if game_over": win_msg is sent to both players; after "win: Replay
\* requested" the new game starts at once, otherwise the server waits for the
\* spectator.
Broadcast(n) ==
    LET n1 == [ServerSendsBoth(n, n.server.win_msg) EXCEPT
                  !.server.delivered[1] = Append(@, <<0, n.server.win_msg>>),
                  !.server.delivered[2] = Append(@, <<0, n.server.win_msg>>)]
    IN  IF n.server.win_msg = ReplayWinMsg THEN StartReplay(n1)
        ELSE [n1 EXCEPT !.server.at = "wait_replay"]

\* One pass of the game loop in which select reports a source: win_msg is
\* reset, the ready sources are handled in the order conn1, conn2, spectator,
\* up to a return or a break, and a game that is over is broadcast.
ServerLoop ==
    /\ net.server.at = "game"
    /\ Ready(net, 1) \/ Ready(net, 2) \/ net.server.spectator # <<>>
    /\ LET n0 == [net EXCEPT !.server.win_msg = <<>>]
           n1 == IF Ready(net, 1) THEN HandleConn(n0, 1) ELSE n0
           stop1 == n1.server.at = "closed" \/ n1.server.win_msg # <<>>
           n2 == IF ~stop1 /\ Ready(net, 2) THEN HandleConn(n1, 2) ELSE n1
           stop2 == n2.server.at = "closed" \/ n2.server.win_msg # <<>>
           n3 == IF ~stop2 /\ net.server.spectator # <<>> THEN HandleSpectator(n2) ELSE n2
       IN  net' = IF n3.server.at # "closed" /\ n3.server.win_msg # <<>>
                  THEN Broadcast(n3) ELSE n3
    /\ NetFrame

\* The wait of up to 30 seconds for the spectator after a win: a REPLAY
\* command starts the new game.
ReplayRequested ==
    /\ net.server.at = "wait_replay"
    /\ net.server.spectator # <<>>
    /\ net' = IF Head(net.server.spectator) = ReplayCmd
              THEN StartReplay([net EXCEPT !.server.spectator = Tail(@)])
              ELSE [net EXCEPT !.server.spectator = Tail(@)]
    /\ NetFrame

\* The wait ends without a REPLAY command: the connections are closed and
\* the server returns.
ReplayTimeout ==
    /\ net.server.at = "wait_replay"
    /\ net.server.spectator = <<>>
    /\ net' = [net EXCEPT !.server.at = "closed"]
    /\ NetFrame

\* The spectator GUI sends REPLAY (its New Game button).
SpectatorReplay ==
    /\ net.server.at \in {"game", "wait_replay"}
    /\ net.server.replays < MaxReplays
    /\ net' = [net EXCEPT !.server.spectator = Append(@, ReplayCmd),
                          !.server.replays = @ + 1]
    /\ NetFrame

\* What the user of client.py may enter (0: "exit") and what random.choice
\* and the search may pick, as an index into the legal moves.
Choices == 0..2

ServerStep ==
    \/ Accept1
    \/ Select1
    \/ Accept2
    \/ RecvOk1
    \/ RecvOk2
    \/ ServerLoop
    \/ ReplayRequested
    \/ ReplayTimeout

\* The steps of the programs of the players that do not wait for the user.
PlayerStep(c) ==
    \/ Connect(c)
    \/ PlayerReads(c)
    \/ EnterLoop(c)
    \/ PlayerAfterMove(c)
    \/ PlayerRecv(c)

NextRelay ==
    \/ ServerStep
    \/ \E c \in {1, 2} : PlayerStep(c)
    \/ \E c \in {1, 2} : \E choice \in Choices : PlayerMove(c, choice)
    \/ SpectatorReplay

SpecRelay == InitRelay /\ [][NextRelay]_vars


\* The handshake steps of a player's program.
PlayerHandshake(c) == Connect(c) \/ PlayerReads(c) \/ EnterLoop(c)

\* A step of the game loop of player c is possible that does not wait for a
\* user: its win check, its readline with a line to read, or the move of
\* agent.py and random_agent.py.
PlayerRuns(c) ==
    \/ net.players[c].at = "moved"
    \/ net.players[c].at = "recv" /\ PlayerCanRead(net, c)
    \/ net.players[c].at = "move" /\ net.players[c].kind # "client"

\* The programs run whenever they can: the server, and each player except
\* where client.py waits for its user.  Each step of a game loop leaves the
\* position it starts from, so weak fairness of these steps says that
\* PlayerRuns does not hold forever.
FairRelay ==
    /\ WF_vars(ServerStep)
    /\ \A c \in {1, 2} : WF_vars(PlayerHandshake(c)) /\ []<>~PlayerRuns(c)

SpecRelayFair == SpecRelay /\ FairRelay

\* seq without its "exit" lines.
RECURSIVE WithoutExit(_)
WithoutExit(seq) ==
    IF seq = <<>> THEN <<>>
    ELSE IF Head(seq) = Exit THEN WithoutExit(Tail(seq))
    ELSE <<Head(seq)>> \o WithoutExit(Tail(seq))

\* The lines of seq that are neither "exit" nor "win:...".
RECURSIVE Forwardable(_)
Forwardable(seq) ==
    IF seq = <<>> THEN <<>>
    ELSE IF Head(seq) = Exit \/ IsWinLine(Head(seq)) THEN Forwardable(Tail(seq))
    ELSE <<Head(seq)>> \o Forwardable(Tail(seq))

\* The lines of delivered that were read from connection c.
RECURSIVE ReadFrom(_, _)
ReadFrom(delivered, c) ==
    IF delivered = <<>> THEN <<>>
    ELSE IF Head(delivered)[1] = c THEN <<Head(delivered)[2]>> \o ReadFrom(Tail(delivered), c)
    ELSE ReadFrom(Tail(delivered), c)

IsPrefix(s, t) == Len(s) <= Len(t) /\ s = SubSeq(t, 1, Len(s))

\* The lines of a player are forwarded to the other player once each and in
\* sending order, and never to the player itself.
ForwardedOnceInOrder ==
    \A c \in {1, 2} :
       /\ IsPrefix(WithoutExit(ReadFrom(net.server.delivered[3 - c], c)),
                   Forwardable(net.players[c].sent))
       /\ ReadFrom(net.server.delivered[c], c) = <<>>

\* The server has read every line the players have sent in their game loops.
AllRead == \A c \in {1, 2} : Len(net.server.read[c]) = Len(net.players[c].sent)

\* Every line a player sends in its game loop is eventually read: sent and
\* read only grow, so each line is read by the next state with AllRead.
EveryLineRead == []<>AllRead

\* C33: during a game every line a player sends is eventually read by the
\* server, also a move immediately followed by a "win:" line; every line that
\* is neither "exit" nor a "win:" line is forwarded to the other player once
\* and in sending order, and never to its sender.
C33_ServerRelay == []ForwardedOnceInOrder /\ EveryLineRead

\* The server waits in the select of its game loop with no source ready
\* while the file object of connection 1 holds the "win:" line it read ahead
\* together with the move it has forwarded.
C33_Diverges ==
    /\ net.server.at = "game"
    /\ ~Ready(net, 1) /\ ~Ready(net, 2) /\ net.server.spectator = <<>>
    /\ net.server.file[1] # <<>> /\ IsWinLine(Head(net.server.file[1]))
    /\ Len(net.players[1].sent) = 2 /\ Len(net.server.read[1]) = 1
    /\ net.server.delivered[2] = << <<1, net.players[1].sent[1]>> >>

\* A line at the socket is always seen by the select of the game loop; it is
\* the read-ahead of the file object that hides lines.
UnreadLinesAreReadAhead ==
    (net.server.at = "game" /\ ~Ready(net, 1) /\ ~Ready(net, 2))
       => net.server.sock = << <<>>, <<>> >>


\* The server has sent BEGIN and the roles of a new game it started on a
\* REPLAY command that arrived in its wait after a win message, and has not
\* handled a line of the new game yet.
NewGameBegun ==
    /\ net.server.at = "game"
    /\ net.server.win_msg # <<>> /\ net.server.win_msg # ReplayWinMsg

\* Player c takes part in the new game: its program runs and its bitmaps
\* are those of the board setup.
PlayerAtSetup(c) ==
    /\ net.players[c].at \notin {"raised", "exited"}
    /\ <<net.players[c].white, net.players[c].black>>
          = ParseSetup(net.players[c].kind, net.server.board_setup)

\* C34: after a game has ended with a win message and the spectator has sent
\* REPLAY within the server's wait, both players reset their boards to the
\* setup position and complete the renewed handshake: when the server has
\* completed it, both players are running with the boards of the setup.
C34_ReplayStartsNewGame == NewGameBegun => \A c \in {1, 2} : PlayerAtSetup(c)

\* The server has started a new game between two client.py players; one has
\* raised on the broadcast "win:" line and the server has taken the lines
\* left from the last game and the closed connection for its "OK"s.
C34_Diverges ==
    /\ NewGameBegun
    /\ \A c \in {1, 2} : net.players[c].kind = "client"
    /\ \E c \in {1, 2} : net.players[c].at = "raised"
    /\ \A c \in {1, 2} : ~PlayerAtSetup(c)

\* No player takes part in a new game: whenever the server has started one,
\* no player has the boards of the setup.
NoPlayerRestarts == NewGameBegun => \A c \in {1, 2} : ~PlayerAtSetup(c)

\* No player program ever reads a second board setup: every player that is
\* past its handshake stays in its game loop or has ended.
NoSecondHandshake ==
    \A c \in {1, 2} :
       Len(net.players[c].sent) > 0
          => net.players[c].at \in {"move", "moved", "recv", "raised", "exited"}


\* Player c is at its readline for the opponent's move and the line to be
\* read starts with "win:".
WinLineNext(c) ==
    /\ net.players[c].at = "recv"
    /\ net.players[c].inbox # <<>>
    /\ IsWinLine(Head(net.players[c].inbox))

\* The step is player c's read of that line.
ReadsWinLine(c) == WinLineNext(c) /\ net'.players[c].at # "recv"

BoardsUnchanged(c) ==
    /\ net'.players[c].white = net.players[c].white
    /\ net'.players[c].black = net.players[c].black

\* C35: a player that receives a line starting with "win:" where it expects
\* the opponent's move does not pass it to execute_move: its boards stay
\* unchanged and no error is raised.
C35_WinLineNotExecuted ==
    [][\A c \in {1, 2} :
          ReadsWinLine(c) => (BoardsUnchanged(c) /\ net'.players[c].at # "raised")]_vars

\* A player has ended with the error raised by execute_move, and the only
\* line the server has sent it that is not a move is a "win:" line.
C35_Diverges ==
    \E c \in {1, 2} :
       /\ net.players[c].at = "raised"
       /\ net.server.replays = 0
       /\ \E i \in DOMAIN net.server.delivered[c] :
             IsWinLine(net.server.delivered[c][i][2])
       /\ \A i \in DOMAIN net.server.delivered[c] :
             execute_move_raises(net.server.delivered[c][i][2])
                => IsWinLine(net.server.delivered[c][i][2])

\* Every one of the three programs passes the line to execute_move, which
\* raises in convert_coord before it changes a bitmap.
WinLineAlwaysRaises ==
    [][\A c \in {1, 2} :
          ReadsWinLine(c) => (BoardsUnchanged(c) /\ net'.players[c].at = "raised")]_vars


\* What make_move returns without a legal move.
IsVerdict(x) == x = Verdict("White") \/ x = Verdict("Black")

\* C36: after make_move has returned "win: <Role>" the agent sends it and
\* leaves its game loop; it neither waits for nor applies a further message
\* of the opponent.
C36_VerdictEndsGame ==
    [][(pc = "returned" /\ IsVerdict(ret)) => pc' = "closed"]_vars

\* The agent has sent the verdict and is at its readline for the opponent's
\* next move.
C36_Diverges == pc = "turn" /\ ~is_my_turn /\ IsVerdict(ret)

\* main() ends its loop after make_move only on "exit": after a verdict it
\* always counts the move and goes on to the opponent's turn.
VerdictNeverEndsLoop ==
    [][(pc = "returned" /\ IsVerdict(ret))
          => (pc' = "turn" /\ move_count' = move_count + 1 /\ ~is_my_turn')]_vars

\* A move of the opponent that arrives after the verdict is executed on the
\* live bitmaps.
MoveAppliedAfterVerdict ==
    /\ IsVerdict(ret) /\ pc = "turn" /\ is_my_turn
    /\ <<white_bitmap, black_bitmap>> # <<hist.white0, hist.black0>>


----------------------------------------------------------------------------
(* The human mode of gui.py: the listener thread, the callbacks it         *)
(* schedules in the Tk main loop and the canvas clicks                      *)

\* PawnChessGUI.is_move_legal for a move from cell s to cell d (a click
\* always gives a cell of the board).
gui_is_move_legal(s, d, r, white, black) ==
    LET row_diff == d[1] - s[1]
        col_diff == d[2] - s[2]
        dir == IF r = "White" THEN -1 ELSE 1
        home == IF r = "White" THEN 6 ELSE 1
        own == IF r = "White" THEN white ELSE black
        opp == IF r = "White" THEN black ELSE white
    IN  IF r \notin Roles THEN FALSE
        ELSE IF s \notin own THEN FALSE
        ELSE IF row_diff = dir /\ col_diff = 0
        THEN d \notin white /\ d \notin black
        ELSE IF row_diff = 2 * dir /\ col_diff = 0 /\ s[1] = home
        THEN /\ <<s[1] + dir, s[2]>> \notin white /\ <<s[1] + dir, s[2]>> \notin black
             /\ d \notin white /\ d \notin black
        ELSE IF row_diff = dir /\ (col_diff = 1 \/ col_diff = -1)
        THEN d \in opp
        ELSE FALSE

\* msg has the format of a move: four characters, letter digit letter digit.
IsMoveFormat(msg) ==
    /\ Len(msg) = 4
    /\ \E i \in 1..8 : FileChars[i] = lower(msg[1])
    /\ IsDigit(msg[2])
    /\ \E i \in 1..8 : FileChars[i] = lower(msg[3])
    /\ IsDigit(msg[4])

\* PawnChessGUI.update_board_state(msg): <<white', black'>>.  A message that
\* is not a move is ignored; the pawn on the source, white before black, is
\* moved and a pawn of the other colour on the destination is removed.
update_board_state(msg, white, black) ==
    IF ~IsMoveFormat(msg) THEN <<white, black>>
    ELSE LET s == convert_coord(SubSeq(msg, 1, 2))
             d == convert_coord(SubSeq(msg, 3, 4))
         IN  IF s \in white THEN <<(white \ {s}) \cup {d}, black \ {d}>>
             ELSE IF s \in black THEN <<white \ {d}, (black \ {s}) \cup {d}>>
             ELSE <<white, black>>

\* PawnChessGUI.check_win_conditions: the promotion is looked for column by
\* column, White before Black in each.
RECURSIVE gui_promotion(_, _, _)
gui_promotion(col, white, black) ==
    IF col > 7 THEN "None"
    ELSE IF <<0, col>> \in white THEN "White wins"
    ELSE IF <<7, col>> \in black THEN "Black wins"
    ELSE gui_promotion(col + 1, white, black)

gui_check_win_conditions(white, black) ==
    IF gui_promotion(0, white, black) # "None" THEN gui_promotion(0, white, black)
    ELSE IF Cardinality(black) = 0 THEN "White wins"
    ELSE IF Cardinality(white) = 0 THEN "Black wins"
    ELSE IF client_generate_all_legal_moves("White", white, black) = <<>> THEN "Black wins"
    ELSE IF client_generate_all_legal_moves("Black", black, white) = <<>> THEN "White wins"
    ELSE "None"

\* The callbacks the listener thread schedules with root.after(0, ...).
ProcessMoveCall(msg) == <<"process_move", msg>>
SetMyTurnCall == <<"set_my_turn", <<>>>>
StatusCall == <<"status_label.config", <<>>>>

\* The cells a user clicks on: those of the files a and h.
ClickCells == Rows \X {0, 7}

\* The GUI after connect_as_human on the board setup name with the role r,
\* and the other player with the same position: the bitmaps, my_turn, the
\* selected square, the callbacks scheduled and not yet run (queue), the lines
\* of the server the listener thread has not read (inbox), the number of moves
\* sent (sent), the text of the status label (status), whether process_move
\* has detected a winner (won) and whether a move was sent after that
\* (sent_after_win); of the other player its bitmaps, whose turn it is and
\* whether it has announced the winner.
HumanGui(name, r) ==
    [mode |-> "human", role |-> r,
     white |-> AgentBoards[name][1], black |-> AgentBoards[name][2],
     my_turn |-> (r = "White"), selected_square |-> None,
     queue |-> <<>>, inbox |-> <<>>, sent |-> 0,
     status |-> IF r = "White" THEN "Your turn!" ELSE "Waiting for opponent's move...",
     won |-> FALSE,
     sent_after_win |-> FALSE,
     opp |-> [white |-> AgentBoards[name][1], black |-> AgentBoards[name][2],
              turn |-> "White", announced |-> FALSE]]

InitGui ==
    /\ \E name \in SetupNames \ {"default"} : \E r \in Roles : gui = HumanGui(name, r)
    /\ white_bitmap = {} /\ black_bitmap = {}
    /\ role = "White"
    /\ transposition_table = <<>> /\ depth = 0
    /\ pc = "gui"
    /\ query = <<>> /\ out = <<>>
    /\ move_count = 0 /\ moves = <<>> /\ best_move = None /\ best_score = 0
    /\ deadline = Never /\ checks = 0 /\ ret = None /\ time_left = TRUE
    /\ hist = Idle /\ ponder = NoThread /\ mcts = NoSession /\ net = NoNet

GuiFrame == UNCHANGED <<role, white_bitmap, black_bitmap, transposition_table, pc,
                        move_count, ret, time_left, hist, SearchVars, PureVars,
                        ponder, mcts, net>>

\* The other player receives a move of the GUI: it executes it when it is
\* the GUI's turn in a game that is not over, and drops it otherwise.
OppReceives(g, move) ==
    IF g.opp.turn = g.role /\ client_check_win_conditions(g.opp.white, g.opp.black) = "None"
    THEN LET nb == Child(move, g.opp.white, g.opp.black, g.role)
         IN  [g EXCEPT !.opp.white = nb[1], !.opp.black = nb[2],
                       !.opp.turn = Opponent(g.role)]
    ELSE g

\* on_canvas_click while it is the user's turn: the first click selects the
\* source; the second sends the move if it is legal, executes it and ends
\* the turn.
on_canvas_click(sq) ==
    /\ gui.mode = "human" /\ gui.my_turn
    /\ gui' =
         IF gui.selected_square = None
         THEN [gui EXCEPT !.selected_square = sq, !.status = "Selected source"]
         ELSE IF gui_is_move_legal(gui.selected_square, sq, gui.role, gui.white, gui.black)
         THEN LET move == coord_to_algebraic(gui.selected_square[1], gui.selected_square[2])
                             \o coord_to_algebraic(sq[1], sq[2])
                  nb == update_board_state(move, gui.white, gui.black)
              IN  OppReceives([gui EXCEPT !.white = nb[1], !.black = nb[2],
                                          !.my_turn = FALSE, !.selected_square = None,
                                          !.status = "Waiting for opponent's move...",
                                          !.sent = @ + 1,
                                          !.sent_after_win = gui.won],
                              move)
         ELSE [gui EXCEPT !.selected_square = None, !.status = "Illegal move"]
    /\ GuiFrame

\* on_canvas_click while it is not the user's turn: only the status label
\* changes.
on_canvas_click_not_my_turn ==
    /\ gui.mode = "human" /\ ~gui.my_turn
    /\ gui' = [gui EXCEPT !.status = "Not your turn! Please wait."]
    /\ GuiFrame

\* The other player moves: a legal move in its position, which the server
\* forwards to the GUI.
OpponentPlays(i) ==
    LET r == Opponent(gui.role)
        mvs == IF r = "White"
               THEN client_generate_all_legal_moves("White", gui.opp.white, gui.opp.black)
               ELSE client_generate_all_legal_moves("Black", gui.opp.black, gui.opp.white)
    IN  /\ gui.mode = "human" /\ gui.opp.turn = r
        /\ client_check_win_conditions(gui.opp.white, gui.opp.black) = "None"
        /\ i \in 1..Len(mvs)
        /\ LET nb == Child(mvs[i], gui.opp.white, gui.opp.black, r)
           IN  gui' = [gui EXCEPT !.opp.white = nb[1], !.opp.black = nb[2],
                                  !.opp.turn = gui.role,
                                  !.inbox = Append(@, mvs[i])]
        /\ GuiFrame

\* The other player finds a winner and sends "win: <winner>", which the
\* server sends to both players.
OpponentAnnounces ==
    /\ gui.mode = "human" /\ ~gui.opp.announced
    /\ client_check_win_conditions(gui.opp.white, gui.opp.black) # "None"
    /\ gui' = [gui EXCEPT !.opp.announced = TRUE,
                          !.inbox = Append(@, WinMsg(client_check_win_conditions(
                                                        gui.opp.white, gui.opp.black)))]
    /\ GuiFrame

\* One pass of the loop of human_listen_thread with a line to read:
\* process_move is scheduled, and after it the status text for a "win:" line
\* or set_my_turn(True) for any other line (BEGIN and Role lines have been read
\* by connect_as_human).
human_listen_thread ==
    /\ gui.mode = "human" /\ gui.inbox # <<>>
    /\ LET msg == Head(gui.inbox)
       IN  gui' = [gui EXCEPT !.inbox = Tail(@),
                              !.queue = @ \o <<ProcessMoveCall(msg),
                                               IF IsWinLine(msg) THEN StatusCall
                                               ELSE SetMyTurnCall>>]
    /\ GuiFrame

\* process_move(msg): the board is updated; a winner ends the user's turn.
process_move(g, msg) ==
    LET nb == update_board_state(msg, g.white, g.black)
    IN  IF gui_check_win_conditions(nb[1], nb[2]) # "None"
        THEN [g EXCEPT !.white = nb[1], !.black = nb[2], !.my_turn = FALSE, !.won = TRUE,
                       !.status = "Game Over"]
        ELSE [g EXCEPT !.white = nb[1], !.black = nb[2], !.status = "Move received"]

\* set_my_turn(flag).
set_my_turn(g, flag) ==
    IF flag THEN [g EXCEPT !.my_turn = flag, !.status = "Your turn!"]
    ELSE [g EXCEPT !.my_turn = flag]

\* The Tk main loop runs the callback scheduled first.
RunCallback ==
    /\ gui.mode = "human" /\ gui.queue # <<>>
    /\ LET call == Head(gui.queue)
           g == [gui EXCEPT !.queue = Tail(@)]
       IN  gui' = IF call[1] = "process_move" THEN process_move(g, call[2])
                  ELSE IF call = SetMyTurnCall THEN set_my_turn(g, TRUE)
                  ELSE [g EXCEPT !.status = "win"]
    /\ GuiFrame

NextGui ==
    \/ \E sq \in ClickCells : on_canvas_click(sq)
    \/ on_canvas_click_not_my_turn
    \/ \E i \in 1..2 : OpponentPlays(i)
    \/ OpponentAnnounces
    \/ human_listen_thread
    \/ RunCallback

SpecGui == InitGui /\ [][NextGui]_vars

\* A move is sent in this step.
MoveSent == gui'.sent # gui.sent

\* C37: in the human mode of the GUI a move is sent only while my_turn is
\* true, my_turn is false right after the move is sent, and once process_move
\* has detected a winner my_turn is false in every later state, in every
\* order of the scheduled callbacks and the clicks.
C37_MyTurnGuardsMoves ==
    /\ [][MoveSent => (gui.my_turn /\ ~gui'.my_turn)]_vars
    /\ [](gui.won => ~gui.my_turn)

\* process_move has detected the winner after the opponent's winning move,
\* set_my_turn(True) scheduled behind it has run, and the user has sent
\* another move.
C37_Diverges == gui.won /\ gui.sent_after_win /\ gui.queue = <<>> /\ gui.inbox = <<>>

\* The first two parts hold: every move is sent on the user's turn and ends
\* it.
SendOnlyOnTurn == [][MoveSent => (gui.my_turn /\ ~gui'.my_turn)]_vars

\* my_turn is true after a winner was detected only through the
\* set_my_turn(True) that human_listen_thread schedules behind process_move.
TurnAfterWinIsSetMyTurn ==
    [][(gui.won /\ ~gui.my_turn /\ gui'.my_turn)
          => (gui.queue # <<>> /\ Head(gui.queue) = SetMyTurnCall)]_vars


----------------------------------------------------------------------------
(* Two player programs on one setup string and one sequence of moves       *)

\* The board setups of the family: one token for a White pawn and one for a
\* Black pawn, the colour letter in either case.
SyncSetups ==
    {<< <<w, wsq[1], wsq[2]>>, <<b, bsq[1], bsq[2]>> >> :
        w \in {"W", "w"}, b \in {"B", "b"},
        wsq \in {<<"a", "6">>, <<"a", "7">>, <<"b", "4">>},
        bsq \in {<<"h", "3">>, <<"h", "4">>, <<"c", "5">>}}

\* initialize_boards of agent.py and random_agent.py, and of client.py, on
\* these setups.
SyncAgentBoards == [setup \in SyncSetups |-> initialize_boards(setup)]
SyncClientBoards == [setup \in SyncSetups |-> client_initialize_boards(setup)]

\* AIAgent.__init__: the agent object keeps the bitmaps it is given, the
\* same lists as those of main().
AIAgent_init(ref) == ref

\* A player program after its handshake: the bitmap objects it holds (heap,
\* each <<white, black>>), the one main() or the game loop works on (main) and
\* the one the AIAgent object works on (agent; for the other programs the
\* loop's own).
NewEndpoint(kind, r, setup) ==
    [kind |-> kind, role |-> r,
     heap |-> <<IF kind = "client" THEN SyncClientBoards[setup]
                ELSE SyncAgentBoards[setup]>>,
     main |-> 1,
     agent |-> IF kind = "agent" THEN AIAgent_init(1) ELSE 1]

InitSync ==
    /\ \E setup \in SyncSetups : \E kind1 \in PlayerKinds, kind2 \in PlayerKinds :
          net = [at |-> "sync", setup |-> setup, turn |-> "White", pending |-> None,
                 sent |-> 0,
                 players |-> <<NewEndpoint(kind1, "White", setup),
                               NewEndpoint(kind2, "Black", setup)>>]
    /\ white_bitmap = {} /\ black_bitmap = {}
    /\ role = "White"
    /\ transposition_table = <<>> /\ depth = 0
    /\ pc = "sync"
    /\ query = <<>> /\ out = <<>>
    /\ move_count = 0 /\ moves = <<>> /\ best_move = None /\ best_score = 0
    /\ deadline = Never /\ checks = 0 /\ ret = None /\ time_left = TRUE
    /\ hist = Idle /\ ponder = NoThread /\ mcts = NoSession /\ gui = NoGui

\* The index of the player with the role r.
PlayerOf(r) == IF r = "White" THEN 1 ELSE 2

\* The legal moves of the program's own generator on the bitmaps it moves on.
EndpointMoves(e) ==
    LET b == e.heap[e.agent]
    IN  IF e.kind = "agent" THEN generate_legal_moves_for_role(e.role, b[1], b[2])
        ELSE IF e.role = "White" THEN client_generate_all_legal_moves("White", b[1], b[2])
        ELSE client_generate_all_legal_moves("Black", b[2], b[1])

\* The player to move makes the i-th of its legal moves: make_move executes
\* it on the bitmaps of the agent object, the loops of random_agent.py and
\* client.py on their own, and the move is sent.
SyncMove(i) ==
    /\ net.at = "sync" /\ net.pending = None
    /\ LET c == PlayerOf(net.turn)
           e == net.players[c]
           b == e.heap[e.agent]
       IN  /\ check_win_conditions(b[1], b[2]) = "None"
           /\ \E mvs \in {EndpointMoves(e)} :
                 /\ i \in 1..Len(mvs)
                 /\ net' = [net EXCEPT !.players[c].heap[e.agent] =
                                           Child(mvs[i], b[1], b[2], e.role),
                                       !.pending = mvs[i],
                                       !.sent = @ + 1]
    /\ NetFrame

\* The other player reads the move and executes it on the bitmaps of its
\* loop.
SyncApply ==
    /\ net.at = "sync" /\ net.pending # None
    /\ LET c == PlayerOf(Opponent(net.turn))
           e == net.players[c]
           b == e.heap[e.main]
       IN  net' = [net EXCEPT !.players[c].heap[e.main] =
                                 Child(net.pending, b[1], b[2], net.turn),
                              !.pending = None,
                              !.turn = Opponent(net.turn)]
    /\ NetFrame

NextSync ==
    \/ \E i \in 1..2 : SyncMove(i)
    \/ SyncApply

SpecSync == InitSync /\ [][NextSync]_vars

\* The bitmaps of the loop of player c, and those of its agent object.
MainBoards(c) == net.players[c].heap[net.players[c].main]
AgentObjectBoards(c) == net.players[c].heap[net.players[c].agent]

\* C38: when both players have parsed the same setup string and every move
\* sent has been delivered and applied, the white and black bitmaps of one
\* player equal those of the other, and those of an agent object equal those
\* of its main loop, whichever programs play.
C38_SamePosition ==
    net.pending = None
       => /\ MainBoards(1) = MainBoards(2)
          /\ \A c \in {1, 2} : AgentObjectBoards(c) = MainBoards(c)

\* agent.py and client.py have parsed the same setup, whose colour letters
\* are lower-case, a move has been made and applied, and their bitmaps
\* differ.
C38_Diverges ==
    /\ net.pending = None /\ net.sent > 0
    /\ {net.players[1].kind, net.players[2].kind} = {"agent", "client"}
    /\ MainBoards(1) # MainBoards(2)

\* The setup has upper-case colour letters only.
UpperCaseSetup == \A i \in 1..Len(net.setup) : net.setup[i][1] \in {"W", "B"}

\* On a setup with upper-case colour letters the players agree.
SamePositionOnUpperCase ==
    (UpperCaseSetup /\ net.pending = None) => MainBoards(1) = MainBoards(2)

\* The bitmaps of an agent object are those of its main loop, and two
\* programs other than client.py agree on every setup.
SamePositionWithoutClient ==
    /\ \A c \in {1, 2} : AgentObjectBoards(c) = MainBoards(c)
    /\ (net.pending = None /\ \A c \in {1, 2} : net.players[c].kind # "client")
          => MainBoards(1) = MainBoards(2)


----------------------------------------------------------------------------
(* The length of a game, checked under SpecPlay                            *)

\* The sum of the row indices of the cells.
RECURSIVE SumRows(_)
SumRows(cells) ==
    IF cells = {} THEN 0
    ELSE LET cell == CHOOSE x \in cells : TRUE
         IN  cell[1] + SumRows(cells \ {cell})

\* The rows the White pawns are away from row 0 plus the rows the Black
\* pawns are away from row 7.
Measure(white, black) == SumRows(white) + (7 * Cardinality(black) - SumRows(black))

\* C39: every legal move strictly decreases the measure, which is never
\* negative, so a game has at most as many moves as the measure of its first
\* position; and where the side to move has no legal move,
\* check_win_conditions of client.py reports a winner.
C39_EveryGameIsFinite ==
    /\ [][Measure(white_bitmap', black_bitmap') < Measure(white_bitmap, black_bitmap)]_vars
    /\ [](Measure(white_bitmap, black_bitmap) >= 0)
    /\ [](LegalMoves(role, Own, Opp) = {}
             => client_check_win_conditions(white_bitmap, black_bitmap) # "None")

\* A game has ended after a move with both sides still holding a pawn and no
\* pawn on its last row: the side to move is blocked.
C39_Witness ==
    /\ pc = "playing"
    /\ LegalMoves(role, Own, Opp) = {}
    /\ white_bitmap # {} /\ black_bitmap # {}
    /\ check_win_conditions(white_bitmap, black_bitmap) = "None"
    /\ client_check_win_conditions(white_bitmap, black_bitmap) # "None"

====
